---------------------------- MODULE Spec2Model ----------------------------
(***************************************************************************)
(* A model of the Crash game round of Inu-Bot (src/cogs/games/crash.py)    *)
(* and of the balance ledger it calls (src/database/database_manager.py). *)
(*                                                                         *)
(* One CrashGameInstance is modelled from its construction.  Every        *)
(* coroutine is cut at its awaits: an action is the code that runs         *)
(* between two suspension points of the asyncio event loop, which runs     *)
(* one coroutine at a time.                                                *)
(*                                                                         *)
(* Numbers.  Multipliers are floats in the code; here they are integers    *)
(* in hundredths (One = 1.00x).  Bets are whole coins; balances are kept   *)
(* in hundredths of a coin, so that bet * multiplier is exact.             *)
(***************************************************************************)
EXTENDS Integers, Sequences, FiniteSets, TLC

\* ------------------------------------------------------------ bounds
\* Users whose join and cash-out requests are interleaved step by step.
NumActive == 2
\* add_player calls (bet modal submissions) in one round.
NumJoinCalls == 2
\* cashout_player calls (button clicks) in one round.
NumCashCalls == 2
\* Clock resolution: ticks per second of the elapsed-time samples.
TicksPerSecond == 1
\* The most ticks that pass between two samples of the clock in run_game.
MaxStep == 2

\* Channels registered for stock updates.
NumChannels == 2
\* Websocket messages processed.
MaxMessages == 3
\* The most items in the seeds list of a snapshot.
MaxItems == 2

\* /slots commands in flight.
NumSpinCalls == 2
\* /crash commands given in the guild after the one that made its first round.
MaxCommands == 2

\* ------------------------------------------------- program constants
\* 1.00x in hundredths: current_multiplier starts at 1.0.
One == 100
MAX_PLAYERS == 20
MIN_BET == 10
MAX_BET == 1000000
\* duration = 5 (seconds) in run_game.
duration == 5
\* random.random() < 0.01, with the draws in thousandths.
InstantCrashPerMille == 10
\* house_edge = 0.99, in thousandths.
house_edge == 990
\* e = 2**32 in units of 2**22: the crash point is a quotient of two
\* multiples of e, and products must stay within TLC's 32-bit integers.
e == 1024

ActiveUsers == 1..NumActive
\* The other members of the guild: enough of them to fill a round but for
\* one seat.  Their joins are run one after the other (CrowdJoin).
Crowd == (NumActive + 1)..(NumActive + MAX_PLAYERS - 1)
Users == ActiveUsers \cup Crowd
JoinCalls == 1..NumJoinCalls
SpinCalls == 1..NumSpinCalls
CashCalls == 1..NumCashCalls
\* The channel ids of stock_channels.
Channels == 1..NumChannels
\* An _update_channel task that has not been created.
IdleTask == [pc |-> "idle", new_id |-> 0, cleanup |-> "none", attempts |-> 0, outcome |-> "none"]

\* What a bet modal may hold: the minimum bet, and twice it.
Amounts == {MIN_BET, 2 * MIN_BET}
\* The starting balance of an active user, in coins: it covers the minimum
\* bet and not twice it.
InitialBalance == MIN_BET + 5
\* Draws of random.random(), in thousandths: [0, 1).
RandomDraws == {5, 500, 995}
\* Crash points forced on a round (the end-to-end scenario of the
\* specification creates its round with an injected generator, at 3.50x).
ForcedCrashPoints == {350}

\* "cashout_at": None, among multipliers in hundredths.
None == -1
\* A call that has not replied yet.
NoReply == "none"

VARIABLES
    is_betting_open,     \* CrashGameInstance.is_betting_open
    is_running,          \* CrashGameInstance.is_running
    crashed_at,          \* CrashGameInstance.crashed_at (hundredths)
    current_multiplier,  \* CrashGameInstance.current_multiplier (hundredths)
    players,             \* CrashGameInstance.players: a function on the users in it
    balance,             \* economy.balance per user (hundredths of a coin)
    profiles,            \* users with a row in users (get_user_profile finds them)
    timeout_pc,          \* where the on_timeout -> lock_bets -> run_game task is
    elapsed,             \* the last sample of time.time() - start_time_loop, in ticks
    graph_len,           \* len(graph_data) in run_game
    joins,               \* the add_player calls: position, arguments, reply
    cashouts,            \* the cashout_player calls: position, arguments, reply
    relock               \* a second lock_bets call on the round: position and locals

\* The stock tracker (src/cogs/roblox_tracker.py).
VARIABLES
    last_data_hash,      \* RobloxTracker.last_data_hash: <<>> for None, else <<hash>>
    current_data,        \* the "data" of the message being processed (last_raw_data)
    feed_pc,             \* where the websocket_listener task is
    change_summary,      \* _handle_update: the notable items of the dispatch
    embed,               \* _handle_update: the embed built for the dispatch
    spins,               \* the /slots commands: position and locals
    guild_log,           \* the guild's rounds replaced in active_games, and the
                         \* number of /crash commands rejected
    status_ids,          \* stock_status_messages: channel -> message id (0: no row)
    alert_ids,           \* bot_config last_notification_channel_<id> (0: no row)
    messages,            \* per channel, the messages of the bot that exist in it
    tasks,               \* the _update_channel tasks: position and locals
    results,             \* what asyncio.gather returned, per channel
    ingested,            \* how many websocket messages have been processed
    weather_history,     \* RobloxTracker.weather_history
    ready,               \* the bot is ready: wait_until_ready returns
    closed,              \* bot.is_closed()
    sleep_left           \* seconds left of the asyncio.sleep of the listener

\* The bot and the clock of the listener.
link_vars == <<ready, closed, sleep_left>>

tracker_vars == <<last_data_hash, current_data, feed_pc, change_summary, embed, status_ids,
                  alert_ids, messages, tasks, results, ingested, weather_history,
                  link_vars>>

vars == <<is_betting_open, is_running, crashed_at, current_multiplier, players,
          balance, profiles, timeout_pc, elapsed, graph_len, joins, cashouts, relock,
          tracker_vars, spins, guild_log>>

\* ------------------------------------------------------ pure functions

Min(a, b) == IF a <= b THEN a ELSE b

\* utils/easing.py: x * x * x, on the fraction num/den.
ease_in_cubic(num, den) == <<num * num * num, den * den * den>>

\* _get_crash_point: r and p are the two draws of random.random(), in
\* thousandths; the result is in hundredths, rounded down.
get_crash_point(r, p) ==
    IF r < InstantCrashPerMille
    THEN One
    ELSE ((e * house_edge - p * e) * One) \div (e * 1000 - p * e)

DurationTicks == duration * TicksPerSecond

\* run_game, lines 181-186 without the min: the eased multiplier for a sample.
EasedMultiplier(crashed, el) ==
    LET progress == Min(el, DurationTicks)
        eased == ease_in_cubic(progress, DurationTicks)
    IN  One + ((crashed - One) * eased[1]) \div eased[2]

\* The multiplier with the base 1 of line 185 left out.
NextMultiplier_NoBase(crashed, el) == Min(EasedMultiplier(crashed, el) - One, crashed)

\* The multiplier held a hundredth below the crash point.
NextMultiplier_BelowCrash(crashed, el) == Min(EasedMultiplier(crashed, el), crashed - 1)

\* run_game, lines 181-186: the multiplier assigned for an elapsed-time sample.
NextMultiplier(crashed, el) == Min(EasedMultiplier(crashed, el), crashed)

\* DatabaseManager.update_balance: the new balances and the value returned.
\* No row for the user, or a database error: nothing changes, False.
update_balance(bal, prof, user, amount, dberr) ==
    IF user \notin prof \/ dberr
    THEN [balance |-> bal, ok |-> FALSE]
    ELSE [balance |-> [bal EXCEPT ![user] = @ + amount], ok |-> TRUE]

\* len(self.players)
NumPlayers(ps) == Cardinality(DOMAIN ps)

\* self.players[user.id] = entry
SetEntry(ps, user, entry) ==
    [u \in DOMAIN ps \cup {user} |-> IF u = user THEN entry ELSE ps[u]]

NewEntry(bet) == [bet |-> bet, cashout_at |-> None]

\* ------------------------------------------------------------- Init

IdleJoin == [pc |-> "idle", user |-> 0, bet |-> 0, ok |-> FALSE, reply |-> NoReply]
\* The guild has had no round but the registered one, and no /crash command
\* has been rejected.
NoLog == [replaced |-> << >>, rejected |-> 0]
\* A /slots command that has not been given.
IdleSpin == [pc |-> "idle", user |-> 0, bet |-> 0, winnings |-> 0, is_win |-> FALSE,
             ok |-> FALSE]
IdleCash == [pc |-> "idle", user |-> 0, winnings |-> 0, reply |-> NoReply]
\* A call that has returned: who made it and the reply it sent; its local
\* variables are gone.
DoneJoin(user, why) == [pc |-> "done", user |-> user, bet |-> 0, ok |-> FALSE, reply |-> why]
DoneCash(user, why) == [pc |-> "done", user |-> user, winnings |-> 0, reply |-> why]

\* --------------------------------------------- the stock tracker: data
\* Names are strings.  name.lower() and the order in which sorted() puts
\* strings (by code point: capitals before small letters) are tabulated for
\* the names of the model.
NameOrder == <<"", "Beanstalk", "Bug Egg", "CACAO", "Cacao", "Carrot", "Star Caller",
               "Trowel", "beanstalk", "bug egg", "cacao", "carrot", "star caller",
               "trowel">>

Rank(name) == CHOOSE i \in DOMAIN NameOrder : NameOrder[i] = name

lower(name) ==
    CASE name = "Beanstalk" -> "beanstalk"
      [] name = "Bug Egg" -> "bug egg"
      [] name \in {"CACAO", "Cacao"} -> "cacao"
      [] name = "Carrot" -> "carrot"
      [] name = "Star Caller" -> "star caller"
      [] name = "Trowel" -> "trowel"
      [] OTHER -> name

\* sorted(): insertion into a sorted list.
RECURSIVE Insert(_, _)
Insert(x, s) ==
    IF s = << >> THEN <<x>>
    ELSE IF Rank(x) <= Rank(Head(s)) THEN <<x>> \o s
    ELSE <<Head(s)>> \o Insert(x, Tail(s))

RECURSIVE sorted(_)
sorted(s) == IF s = << >> THEN << >> ELSE Insert(Head(s), sorted(Tail(s)))

\* sorted() of a set, whose iteration order does not matter to the result.
RECURSIVE sorted_set(_)
sorted_set(S) ==
    IF S = {} THEN << >>
    ELSE LET x == CHOOSE y \in S : \A z \in S : Rank(y) <= Rank(z)
         IN  <<x>> \o sorted_set(S \ {x})

\* sorted(CATEGORY_MAPPING), and the part of the allow-lists that the names
\* of the model meet.
Categories == {"eggs", "gear", "seeds"}
NOTABLE_SEEDS == {"Beanstalk", "Cacao"}
NOTABLE_GEAR == {"Star Caller"}
NOTABLE_EGGS == {"Bug Egg"}
NOTABLE_MAP == [seeds |-> NOTABLE_SEEDS, gear |-> NOTABLE_GEAR, eggs |-> NOTABLE_EGGS]

\* data.get("weather") is not a dict.
NoWeather == "none"
\* "Bình thường", the default of _get_weather_type.
DefaultWeather == "Binh thuong"

\* _get_weather_type, lines 204-208.
get_weather_type(data) == IF data.weather = NoWeather THEN DefaultWeather ELSE data.weather

\* [item.get('name', '').lower() for item in items if item.get('name')]
names_of(items) ==
    LET named == SelectSeq(items, LAMBDA it : it.name # "")
    IN  [i \in 1..Len(named) |-> lower(named[i].name)]

\* _calculate_data_hash, lines 195-202, for a non-empty data: the canonical
\* projection that is serialised and given to md5.  The digest stands for
\* the string it is taken of: two fingerprints are equal exactly when the
\* canonical projections are.
calculate_data_hash(data) ==
    [weather |-> get_weather_type(data),
     items |-> [c \in {k \in Categories : data[k] # << >>} |-> sorted(names_of(data[c]))]]

\* _get_notable_items, lines 227-244: per category, the allow-listed names
\* of new_data in their original casing, sorted.
get_notable_items(new_data) ==
    LET new_set(c) == {lower(new_data[c][i].name) :
                         i \in {j \in DOMAIN new_data[c] : new_data[c][j].name # ""}}
        current_notables(c) == new_set(c) \cap {lower(n) : n \in NOTABLE_MAP[c]}
        original_casing(c, ln) ==
            LET idx == {i \in DOMAIN new_data[c] : lower(new_data[c][i].name) = ln}
            IN  new_data[c][CHOOSE i \in idx : \A j \in idx : j <= i].name
    IN  [c \in {k \in Categories : current_notables(k) # {}} |->
            sorted_set({original_casing(c, ln) : ln \in current_notables(c)})]

\* No message is being processed.
NoData ==
    [weather |-> NoWeather, weatherHistory |-> << >>,
     seeds |-> << >>, gear |-> << >>, eggs |-> << >>]

\* _process_items with the quantity of a name overwritten by each entry.
RECURSIVE process_from_Overwrites(_, _, _)
process_from_Overwrites(items, i, processed) ==
    IF i > Len(items) THEN processed
    ELSE LET item == items[i]
             name == item.name
         IN  process_from_Overwrites(items, i + 1,
                 IF name # ""
                 THEN [n \in DOMAIN processed \cup {name} |->
                          IF n = name THEN item.quantity ELSE processed[n]]
                 ELSE processed)

\* _process_items, lines 313-316: the loop from entry i on, with the
\* dictionary built so far.
RECURSIVE process_from(_, _, _)
process_from(items, i, processed) ==
    IF i > Len(items) THEN processed
    ELSE LET item == items[i]
             name == item.name
         IN  process_from(items, i + 1,
                 IF name # ""
                 THEN [n \in DOMAIN processed \cup {name} |->
                          (IF n \in DOMAIN processed THEN processed[n] ELSE 0)
                              + (IF n = name THEN item.quantity ELSE 0)]
                 ELSE processed)

\* _process_items: a dictionary from item name to quantity.
process_items(items) == process_from(items, 1, [n \in {} |-> 0])

\* _build_stock_embed, line 303: one line per name, sorted by name.
field_value(processed_items) ==
    LET names == sorted_set(DOMAIN processed_items)
    IN  [i \in DOMAIN names |-> [name |-> names[i], quantity |-> processed_items[names[i]]]]

\* _build_stock_embed: the weather of the description and the field of each
\* category (no lines: the field is left out).
build_stock_embed(data) ==
    [description |-> get_weather_type(data),
     fields |-> [c \in Categories |-> field_value(process_items(data[c]))]]

\* No embed has been built.
NoEmbed == << >>

\* The listener is connected and reads the feed; the bot stays open.
Connected ==
    /\ ready = TRUE
    /\ closed = FALSE
    /\ sleep_left = 0

\* The tracker after __init__, with no row yet in its tables and no message
\* of the bot in any channel, when its listener has connected.
TrackerStart ==
    /\ Connected
    /\ weather_history = << >>
    /\ last_data_hash = << >>
    /\ current_data = NoData
    /\ feed_pc = "idle"
    /\ change_summary = << >>
    /\ embed = NoEmbed
    /\ status_ids = [ch \in Channels |-> 0]
    /\ alert_ids = [ch \in Channels |-> 0]
    /\ messages = [ch \in Channels |-> {}]
    /\ tasks = [ch \in Channels |-> IdleTask]
    /\ results = [ch \in Channels |-> "none"]
    /\ ingested = 0

\* The second lock_bets call has not been made; elapsed and graph_len are
\* the locals of its run_game.
IdleLock == [pc |-> "idle", elapsed |-> 0, graph_len |-> 0]

Init ==
    /\ is_betting_open = TRUE
    /\ is_running = FALSE
    /\ \/ \E r \in RandomDraws, p \in RandomDraws : crashed_at = get_crash_point(r, p)
       \/ crashed_at \in ForcedCrashPoints
    /\ current_multiplier = One
    /\ players = << >>
    /\ balance = [u \in Users |-> IF u \in ActiveUsers THEN InitialBalance * One
                                                         ELSE MIN_BET * One]
    /\ profiles \in {Users, Users \ {NumActive}}
    /\ timeout_pc = "betting"
    /\ elapsed = 0
    /\ graph_len = 0
    /\ joins = [c \in JoinCalls |-> IdleJoin]
    /\ cashouts = [k \in CashCalls |-> IdleCash]
    /\ relock = IdleLock
    /\ spins = [s \in SpinCalls |-> IdleSpin]
    /\ guild_log = NoLog
    /\ TrackerStart

\* Calls are interchangeable: call i is made only once call i - 1 has been.
InOrder(calls, i) == IF i = 1 THEN TRUE ELSE calls[i - 1].pc # "idle"

\* ------------------------------------------------ the on_timeout task

\* run_game, lines 180-196: the while test and one pass of the loop body up
\* to its next await, for the clock sample el.  Past the loop (lines 199-202)
\* is_running is cleared and the final frame is pushed.
LoopStep(cur, crashed, glen, el) ==
    IF cur < crashed
    THEN LET m == NextMultiplier(crashed, el)
         IN  [is_running |-> TRUE, current_multiplier |-> m, graph_len |-> glen + 1,
              elapsed |-> el,
              pc |-> IF (glen + 1) % 3 # 0 /\ m < crashed THEN "sleep_short" ELSE "push"]
    ELSE [is_running |-> FALSE, current_multiplier |-> cur, graph_len |-> glen,
          elapsed |-> elapsed, pc |-> "final_push"]

\* lock_bets without the test of players of line 118: run_game is always
\* awaited.
lock_bets_NoPlayersCheck ==
    /\ timeout_pc = "betting"
    /\ is_betting_open' = FALSE
    /\ LET s == LoopStep(current_multiplier, crashed_at, 1, 0)
       IN  /\ is_running' = s.is_running
           /\ current_multiplier' = s.current_multiplier
           /\ graph_len' = s.graph_len
           /\ elapsed' = s.elapsed
           /\ timeout_pc' = s.pc
    /\ UNCHANGED <<crashed_at, players, balance, profiles, joins, cashouts, relock, tracker_vars, spins, guild_log>>

\* lock_bets without the assignment of line 117: betting stays open.
lock_bets_KeepsOpen ==
    /\ timeout_pc = "betting"
    /\ is_betting_open' = is_betting_open
    /\ IF NumPlayers(players) = 0
       THEN /\ timeout_pc' = "cancel_edit"
            /\ UNCHANGED <<is_running, current_multiplier, graph_len, elapsed>>
       ELSE LET s == LoopStep(current_multiplier, crashed_at, 1, 0)
            IN  /\ is_running' = s.is_running
                /\ current_multiplier' = s.current_multiplier
                /\ graph_len' = s.graph_len
                /\ elapsed' = s.elapsed
                /\ timeout_pc' = s.pc
    /\ UNCHANGED <<crashed_at, players, balance, profiles, joins, cashouts, relock, tracker_vars, spins, guild_log>>

\* CrashJoinView.on_timeout -> lock_bets, and with players run_game up to its
\* first await: the betting timer has elapsed.
lock_bets ==
    /\ timeout_pc = "betting"
    /\ is_betting_open' = FALSE
    /\ IF NumPlayers(players) = 0
       THEN /\ timeout_pc' = "cancel_edit"
            /\ UNCHANGED <<is_running, current_multiplier, graph_len, elapsed>>
       ELSE LET s == LoopStep(current_multiplier, crashed_at, 1, 0)
            IN  /\ is_running' = s.is_running
                /\ current_multiplier' = s.current_multiplier
                /\ graph_len' = s.graph_len
                /\ elapsed' = s.elapsed
                /\ timeout_pc' = s.pc
    /\ UNCHANGED <<crashed_at, players, balance, profiles, joins, cashouts, relock, tracker_vars, spins, guild_log>>

\* lock_bets, line 120: the "Game Cancelled" edit returns.
CancelEdit ==
    /\ timeout_pc = "cancel_edit"
    /\ timeout_pc' = "cancelled"
    /\ UNCHANGED <<is_betting_open, is_running, crashed_at, current_multiplier, players,
                   balance, profiles, elapsed, graph_len, joins, cashouts, relock, tracker_vars, spins, guild_log>>

\* run_game: asyncio.sleep (line 191 or 196) returns; the loop tests its
\* condition and, inside, samples the clock, which has advanced.
run_game ==
    /\ timeout_pc \in {"sleep_short", "sleep_long"}
    /\ \E dt \in 1..MaxStep :
         LET s == LoopStep(current_multiplier, crashed_at, graph_len, elapsed + dt)
         IN  /\ is_running' = s.is_running
             /\ current_multiplier' = s.current_multiplier
             /\ graph_len' = s.graph_len
             /\ elapsed' = s.elapsed
             /\ timeout_pc' = s.pc
    /\ UNCHANGED <<is_betting_open, crashed_at, players, balance, profiles, joins, cashouts,
                   relock, tracker_vars, spins, guild_log>>

\* _update_game_embed(in_progress=True), line 195: the edit returns, or
\* raises; nothing in run_game, lock_bets or on_timeout catches it.
PushFrame ==
    /\ timeout_pc = "push"
    /\ \/ timeout_pc' = "sleep_long"
       \/ timeout_pc' = "failed"
    /\ UNCHANGED <<is_betting_open, is_running, crashed_at, current_multiplier, players,
                   balance, profiles, elapsed, graph_len, joins, cashouts, relock, tracker_vars, spins, guild_log>>

\* _update_game_embed(in_progress=False), line 202: the final edit returns.
FinalPush ==
    /\ timeout_pc = "final_push"
    /\ timeout_pc' = "done"
    /\ UNCHANGED <<is_betting_open, is_running, crashed_at, current_multiplier, players,
                   balance, profiles, elapsed, graph_len, joins, cashouts, relock, tracker_vars, spins, guild_log>>

\* ------------------------------------- lock_bets called a second time
\* The program calls lock_bets once a round (on_timeout); these actions are
\* what the method does when it is called again on the same round, as a
\* second task beside the first.

\* lock_bets, lines 117-123, and with players run_game up to its first await.
lock_bets_again ==
    /\ timeout_pc # "betting"
    /\ relock.pc = "idle"
    /\ is_betting_open' = FALSE
    /\ IF NumPlayers(players) = 0
       THEN /\ relock' = [relock EXCEPT !.pc = "cancel_edit"]
            /\ UNCHANGED <<is_running, current_multiplier>>
       ELSE LET s == LoopStep(current_multiplier, crashed_at, 1, 0)
            IN  /\ is_running' = s.is_running
                /\ current_multiplier' = s.current_multiplier
                /\ relock' = [pc |-> s.pc, elapsed |-> 0, graph_len |-> s.graph_len]
    /\ UNCHANGED <<crashed_at, players, balance, profiles, timeout_pc, elapsed, graph_len,
                   joins, cashouts, tracker_vars, spins, guild_log>>

\* line 120 of the second call: the "Game Cancelled" edit returns.
CancelEdit_again ==
    /\ relock.pc = "cancel_edit"
    /\ relock' = [relock EXCEPT !.pc = "cancelled"]
    /\ UNCHANGED <<is_betting_open, is_running, crashed_at, current_multiplier, players,
                   balance, profiles, timeout_pc, elapsed, graph_len, joins, cashouts, tracker_vars, spins, guild_log>>

\* run_game of the second call: a sleep returns, with its own start time and
\* graph_data and the shared current_multiplier and is_running.
run_game_again ==
    /\ relock.pc \in {"sleep_short", "sleep_long"}
    /\ \E dt \in 1..MaxStep :
         LET s == LoopStep(current_multiplier, crashed_at, relock.graph_len,
                           relock.elapsed + dt)
         IN  /\ is_running' = s.is_running
             /\ current_multiplier' = s.current_multiplier
             /\ relock' = [pc |-> s.pc,
                           elapsed |-> IF s.pc = "final_push" THEN relock.elapsed
                                                              ELSE s.elapsed,
                           graph_len |-> s.graph_len]
    /\ UNCHANGED <<is_betting_open, crashed_at, players, balance, profiles, timeout_pc,
                   elapsed, graph_len, joins, cashouts, tracker_vars, spins, guild_log>>

\* line 195 of the second call: the edit returns, or raises.
PushFrame_again ==
    /\ relock.pc = "push"
    /\ \/ relock' = [relock EXCEPT !.pc = "sleep_long"]
       \/ relock' = [relock EXCEPT !.pc = "failed"]
    /\ UNCHANGED <<is_betting_open, is_running, crashed_at, current_multiplier, players,
                   balance, profiles, timeout_pc, elapsed, graph_len, joins, cashouts, tracker_vars, spins, guild_log>>

\* line 202 of the second call: the final edit returns.
FinalPush_again ==
    /\ relock.pc = "final_push"
    /\ relock' = [relock EXCEPT !.pc = "done"]
    /\ UNCHANGED <<is_betting_open, is_running, crashed_at, current_multiplier, players,
                   balance, profiles, timeout_pc, elapsed, graph_len, joins, cashouts, tracker_vars, spins, guild_log>>

\* ---------------------------------------------------------- add_player

\* CrashBetModal.on_submit and add_player up to the await of update_balance.
AddPlayerStart(c) ==
    /\ joins[c].pc = "idle"
    /\ InOrder(joins, c)
    /\ \E user \in ActiveUsers, amount \in Amounts :
         LET reject(why) == DoneJoin(user, why)
         IN  joins' = [joins EXCEPT ![c] =
                 IF ~(MIN_BET <= amount /\ amount <= MAX_BET) THEN reject("invalid_bet")
                 ELSE IF ~is_betting_open THEN reject("betting_over")
                 ELSE IF user \in DOMAIN players THEN reject("already_joined")
                 ELSE IF NumPlayers(players) >= MAX_PLAYERS THEN reject("game_full")
                 ELSE [pc |-> "debit", user |-> user, bet |-> amount,
                       ok |-> FALSE, reply |-> NoReply]]
    /\ UNCHANGED <<is_betting_open, is_running, crashed_at, current_multiplier, players,
                   balance, profiles, timeout_pc, elapsed, graph_len, cashouts, relock, tracker_vars, spins, guild_log>>

\* update_balance(user.id, -bet) runs in the database.
AddPlayerDebit(c) ==
    /\ joins[c].pc = "debit"
    /\ \E dberr \in BOOLEAN :
         LET r == update_balance(balance, profiles, joins[c].user,
                                 -(joins[c].bet * One), dberr)
         IN  /\ balance' = r.balance
             /\ joins' = [joins EXCEPT ![c].pc = "resume", ![c].ok = r.ok]
    /\ UNCHANGED <<is_betting_open, is_running, crashed_at, current_multiplier, players,
                   profiles, timeout_pc, elapsed, graph_len, cashouts, relock, tracker_vars, spins, guild_log>>

\* add_player, lines 135-140: the await of update_balance returns.
AddPlayerResume(c) ==
    /\ joins[c].pc = "resume"
    /\ IF joins[c].ok
       THEN /\ players' = SetEntry(players, joins[c].user, NewEntry(joins[c].bet))
            /\ joins' = [joins EXCEPT ![c] = DoneJoin(joins[c].user, "joined")]
       ELSE /\ players' = players
            /\ joins' = [joins EXCEPT ![c] = DoneJoin(joins[c].user, "no_funds")]
    /\ UNCHANGED <<is_betting_open, is_running, crashed_at, current_multiplier,
                   balance, profiles, timeout_pc, elapsed, graph_len, cashouts, relock, tracker_vars, spins, guild_log>>

\* One whole add_player of a crowd member betting MIN_BET, with no other
\* coroutine running during its awaits.
AddPlayerWhole(st, user) ==
    IF ~is_betting_open \/ user \in DOMAIN st.players
       \/ NumPlayers(st.players) >= MAX_PLAYERS
    THEN st
    ELSE LET r == update_balance(st.balance, profiles, user, -(MIN_BET * One), FALSE)
         IN  IF r.ok
             THEN [players |-> SetEntry(st.players, user, NewEntry(MIN_BET)),
                   balance |-> r.balance]
             ELSE st

RECURSIVE AddCrowd(_, _)
AddCrowd(st, us) ==
    IF us = {} THEN st
    ELSE LET user == CHOOSE x \in us : \A y \in us : x <= y
         IN  AddCrowd(AddPlayerWhole(st, user), us \ {user})

\* The crowd joins: its members' add_player calls, one after the other.
CrowdJoin ==
    /\ is_betting_open
    /\ Crowd \cap DOMAIN players = {}
    /\ LET st == AddCrowd([players |-> players, balance |-> balance], Crowd)
       IN  /\ players' = st.players
           /\ balance' = st.balance
    /\ UNCHANGED <<is_betting_open, is_running, crashed_at, current_multiplier,
                   profiles, timeout_pc, elapsed, graph_len, joins, cashouts, relock, tracker_vars, spins, guild_log>>

\* ------------------------------------------------------ cashout_player

\* cashout_player paying out at the crash point instead of the multiplier
\* shown at the instant of the call.
CashoutStart_AtCrash(k) ==
    /\ cashouts[k].pc = "idle"
    /\ InOrder(cashouts, k)
    /\ \E user \in ActiveUsers :
         IF ~is_running \/ user \notin DOMAIN players
         THEN /\ cashouts' = [cashouts EXCEPT ![k] =
                    DoneCash(user, "not_active")]
              /\ players' = players
         ELSE IF players[user].cashout_at # None
         THEN /\ cashouts' = [cashouts EXCEPT ![k] =
                    DoneCash(user, "already_cashed_out")]
              /\ players' = players
         ELSE /\ players' = [players EXCEPT ![user].cashout_at = current_multiplier]
              /\ cashouts' = [cashouts EXCEPT ![k] =
                    [pc |-> "credit", user |-> user,
                     winnings |-> players[user].bet * crashed_at, reply |-> NoReply]]
    /\ UNCHANGED <<is_betting_open, is_running, crashed_at, current_multiplier,
                   balance, profiles, timeout_pc, elapsed, graph_len, joins, relock, tracker_vars, spins, guild_log>>

\* cashout_player without the is_running test of line 145.
CashoutStart_NoRunningCheck(k) ==
    /\ cashouts[k].pc = "idle"
    /\ InOrder(cashouts, k)
    /\ \E user \in ActiveUsers :
         IF user \notin DOMAIN players
         THEN /\ cashouts' = [cashouts EXCEPT ![k] =
                    DoneCash(user, "not_active")]
              /\ players' = players
         ELSE IF players[user].cashout_at # None
         THEN /\ cashouts' = [cashouts EXCEPT ![k] =
                    DoneCash(user, "already_cashed_out")]
              /\ players' = players
         ELSE /\ players' = [players EXCEPT ![user].cashout_at = current_multiplier]
              /\ cashouts' = [cashouts EXCEPT ![k] =
                    [pc |-> "credit", user |-> user,
                     winnings |-> players[user].bet * current_multiplier, reply |-> NoReply]]
    /\ UNCHANGED <<is_betting_open, is_running, crashed_at, current_multiplier,
                   balance, profiles, timeout_pc, elapsed, graph_len, joins, relock, tracker_vars, spins, guild_log>>

\* cashout_player up to the await inside update_balance (lines 144-152).
CashoutStart(k) ==
    /\ cashouts[k].pc = "idle"
    /\ InOrder(cashouts, k)
    /\ \E user \in ActiveUsers :
         IF ~is_running \/ user \notin DOMAIN players
         THEN /\ cashouts' = [cashouts EXCEPT ![k] =
                    DoneCash(user, "not_active")]
              /\ players' = players
         ELSE IF players[user].cashout_at # None
         THEN /\ cashouts' = [cashouts EXCEPT ![k] =
                    DoneCash(user, "already_cashed_out")]
              /\ players' = players
         ELSE /\ players' = [players EXCEPT ![user].cashout_at = current_multiplier]
              /\ cashouts' = [cashouts EXCEPT ![k] =
                    [pc |-> "credit", user |-> user,
                     winnings |-> players[user].bet * current_multiplier, reply |-> NoReply]]
    /\ UNCHANGED <<is_betting_open, is_running, crashed_at, current_multiplier,
                   balance, profiles, timeout_pc, elapsed, graph_len, joins, relock, tracker_vars, spins, guild_log>>

\* update_balance(user.id, winnings) runs in the database; its result is
\* not looked at, and the reply of lines 153-155 is sent.
CashoutCredit(k) ==
    /\ cashouts[k].pc = "credit"
    /\ \E dberr \in BOOLEAN :
         LET r == update_balance(balance, profiles, cashouts[k].user,
                                 cashouts[k].winnings, dberr)
         IN  balance' = r.balance
    /\ cashouts' = [cashouts EXCEPT ![k] = DoneCash(cashouts[k].user, "cashed_out")]
    /\ UNCHANGED <<is_betting_open, is_running, crashed_at, current_multiplier, players,
                   profiles, timeout_pc, elapsed, graph_len, joins, relock, tracker_vars, spins, guild_log>>

\* ------------------------------------------------------ specification

Next ==
    \/ lock_bets
    \/ CancelEdit
    \/ run_game
    \/ PushFrame
    \/ FinalPush
    \/ CrowdJoin
    \/ \E c \in JoinCalls : AddPlayerStart(c)
    \/ \E c \in JoinCalls : AddPlayerDebit(c)
    \/ \E c \in JoinCalls : AddPlayerResume(c)
    \/ \E k \in CashCalls : CashoutStart(k)
    \/ \E k \in CashCalls : CashoutCredit(k)

Spec == Init /\ [][Next]_vars

\* The round with the crowd as its only players: the betting timer and the
\* animation loop on their own, with no request of an active user.
NextAnimation ==
    \/ lock_bets
    \/ CancelEdit
    \/ run_game
    \/ PushFrame
    \/ FinalPush
    \/ CrowdJoin

SpecAnimation == Init /\ [][NextAnimation]_vars

\* The round in which one bet modal is submitted: the timer task, the crowd,
\* the first add_player call and every cashout_player call.
NextOneJoin ==
    \/ lock_bets
    \/ CancelEdit
    \/ run_game
    \/ PushFrame
    \/ FinalPush
    \/ CrowdJoin
    \/ AddPlayerStart(1)
    \/ AddPlayerDebit(1)
    \/ AddPlayerResume(1)
    \/ \E k \in CashCalls : CashoutStart(k)
    \/ \E k \in CashCalls : CashoutCredit(k)

SpecOneJoin == Init /\ [][NextOneJoin]_vars

\* The round in its betting phase after user 1 has joined with the minimum
\* bet, by the first add_player call.
InitSeated ==
    /\ is_betting_open = TRUE
    /\ is_running = FALSE
    /\ \/ \E r \in RandomDraws, p \in RandomDraws : crashed_at = get_crash_point(r, p)
       \/ crashed_at \in ForcedCrashPoints
    /\ current_multiplier = One
    /\ players = SetEntry(<< >>, 1, NewEntry(MIN_BET))
    /\ balance = [u \in Users |->
                    IF u = 1 THEN (InitialBalance - MIN_BET) * One
                    ELSE IF u \in ActiveUsers THEN InitialBalance * One
                    ELSE MIN_BET * One]
    /\ profiles = Users
    /\ timeout_pc = "betting"
    /\ elapsed = 0
    /\ graph_len = 0
    /\ joins = [c \in JoinCalls |-> IF c = 1 THEN DoneJoin(1, "joined") ELSE IdleJoin]
    /\ cashouts = [k \in CashCalls |-> IdleCash]
    /\ relock = IdleLock
    /\ spins = [s \in SpinCalls |-> IdleSpin]
    /\ guild_log = NoLog
    /\ TrackerStart

\* The timer task and the cash-out requests of that round.
NextSeated ==
    \/ lock_bets
    \/ run_game
    \/ PushFrame
    \/ FinalPush
    \/ \E k \in CashCalls : CashoutStart(k)
    \/ \E k \in CashCalls : CashoutCredit(k)

\* The round under an event loop that resumes run_game when a sleep is
\* over and when an edit of the message has been answered.
SpecSeatedLive ==
    InitSeated /\ [][NextSeated]_vars /\ WF_vars(run_game) /\ WF_vars(PushFrame)

\* The timer task and the crowd, with lock_bets called a second time.
NextRelock ==
    \/ lock_bets
    \/ CancelEdit
    \/ run_game
    \/ PushFrame
    \/ FinalPush
    \/ CrowdJoin
    \/ lock_bets_again
    \/ CancelEdit_again
    \/ run_game_again
    \/ PushFrame_again
    \/ FinalPush_again

SpecRelock == Init /\ [][NextRelock]_vars

\* ------------------------------------------------- the /crash command

\* What is left of a round that active_games no longer holds: its flags and
\* where its timer task is.
Replaced == [is_betting_open |-> is_betting_open, is_running |-> is_running,
             timeout_pc |-> timeout_pc]

\* Crash.crash replacing the registered round unless it is running.
crash_ChecksRunningOnly ==
    /\ Len(guild_log.replaced) + guild_log.rejected < MaxCommands
    /\ joins = [c \in JoinCalls |-> IdleJoin]
    /\ cashouts = [k \in CashCalls |-> IdleCash]
    /\ IF is_running
       THEN /\ guild_log' = [guild_log EXCEPT !.rejected = @ + 1]
            /\ UNCHANGED <<is_betting_open, is_running, crashed_at, current_multiplier,
                           players, timeout_pc, elapsed, graph_len>>
       ELSE /\ guild_log' = [guild_log EXCEPT !.replaced = Append(@, Replaced)]
            /\ is_betting_open' = TRUE
            /\ is_running' = FALSE
            /\ \/ \E r \in RandomDraws, p \in RandomDraws :
                    crashed_at' = get_crash_point(r, p)
               \/ crashed_at' \in ForcedCrashPoints
            /\ current_multiplier' = One
            /\ players' = << >>
            /\ timeout_pc' = "betting"
            /\ elapsed' = 0
            /\ graph_len' = 0
    /\ UNCHANGED <<balance, profiles, joins, cashouts, relock, tracker_vars, spins>>

\* Crash.crash, lines 276-284: the command is rejected while the guild's
\* registered round is betting or running; otherwise a new round is made
\* and registered in place of the old one, whose task goes on.  The command
\* is given while no add_player or cashout_player call is in flight.
crash ==
    /\ Len(guild_log.replaced) + guild_log.rejected < MaxCommands
    /\ joins = [c \in JoinCalls |-> IdleJoin]
    /\ cashouts = [k \in CashCalls |-> IdleCash]
    /\ IF is_running \/ is_betting_open
       THEN /\ guild_log' = [guild_log EXCEPT !.rejected = @ + 1]
            /\ UNCHANGED <<is_betting_open, is_running, crashed_at, current_multiplier,
                           players, timeout_pc, elapsed, graph_len>>
       ELSE /\ guild_log' = [guild_log EXCEPT !.replaced = Append(@, Replaced)]
            /\ is_betting_open' = TRUE
            /\ is_running' = FALSE
            /\ \/ \E r \in RandomDraws, p \in RandomDraws :
                    crashed_at' = get_crash_point(r, p)
               \/ crashed_at' \in ForcedCrashPoints
            /\ current_multiplier' = One
            /\ players' = << >>
            /\ timeout_pc' = "betting"
            /\ elapsed' = 0
            /\ graph_len' = 0
    /\ UNCHANGED <<balance, profiles, joins, cashouts, relock, tracker_vars, spins>>

\* The task of a replaced round goes on: the "Game Cancelled" edit (line
\* 120) or the final edit (line 202) returns.
ReplacedStep(i) ==
    /\ i \in DOMAIN guild_log.replaced
    /\ guild_log.replaced[i].timeout_pc \in {"cancel_edit", "final_push"}
    /\ guild_log' = [guild_log EXCEPT !.replaced[i].timeout_pc =
                        IF @ = "cancel_edit" THEN "cancelled" ELSE "done"]
    /\ UNCHANGED <<is_betting_open, is_running, crashed_at, current_multiplier, players,
                   balance, profiles, timeout_pc, elapsed, graph_len, joins, cashouts,
                   relock, tracker_vars, spins>>

\* The rounds of a guild one after the other: the timer task of each, the
\* crowd as players, and the /crash commands.
NextRounds ==
    \/ lock_bets
    \/ CancelEdit
    \/ run_game
    \/ PushFrame
    \/ FinalPush
    \/ CrowdJoin
    \/ crash
    \/ \E i \in 1..MaxCommands : ReplacedStep(i)

SpecRounds == Init /\ [][NextRounds]_vars

\* ------------------------------------------------------------ claims

\* A join is in flight: past the checks of add_player, not yet returned.
JoinInFlight(u) == \E c \in JoinCalls : joins[c].user = u /\ joins[c].pc \in {"debit", "resume"}

\* The cash-out calls of u that were accepted (lines 150-152 ran).
Accepted(u) ==
    {k \in CashCalls : cashouts[k].user = u
                       /\ (cashouts[k].pc = "credit" \/ cashouts[k].reply = "cashed_out")}

\* C1: no entry is added to players in a state where is_betting_open is
\* false: a join never completes after betting has been locked.
C1_NoJoinAfterLock ==
    [][\A u \in DOMAIN players' : u \notin DOMAIN players => is_betting_open]_vars

\* C2: a player is admitted at most once and debited at most once by joins:
\* with no join of theirs in flight and no cash-out made, what the ledger
\* has taken from them is the one bet recorded in players (nothing if they
\* are not in it).
C2_SingleAdmission ==
    \A u \in ActiveUsers :
        /\ Cardinality({c \in JoinCalls : joins[c].user = u /\ joins[c].reply = "joined"}) <= 1
        /\ (~JoinInFlight(u) /\ Accepted(u) = {})
             => balance[u] = InitialBalance * One
                             - (IF u \in DOMAIN players THEN players[u].bet * One ELSE 0)

\* C3: a bet above the balance is declined, so that no balance is ever
\* negative.
C3_NoNegativeBalance == \A u \in Users : balance[u] >= 0

C6_MultiplierBelowCrash == current_multiplier <= crashed_at

\* C7: the crash point generated at the creation of the round is >= 1.00,
\* for the instant-crash branch and for every draw of the transform branch.
C7_CrashPointAtLeastOne == crashed_at \notin ForcedCrashPoints => crashed_at >= One

\* C8: current_multiplier never decreases in the lifetime of a round, the
\* samples of the elapsed time being non-decreasing.
C8_MultiplierMonotone == [][current_multiplier' >= current_multiplier]_vars

\* The animation loop has raised the multiplier and is still running.
C8_Witness == is_running /\ One < current_multiplier /\ current_multiplier < crashed_at

\* C9: players never holds more than MAX_PLAYERS entries.
C9_PlayerCap == NumPlayers(players) <= MAX_PLAYERS

C11_CashoutCreditsAtOnce ==
    [][/\ \A k \in CashCalls :
             (cashouts[k].pc = "idle" /\ cashouts'[k].pc = "credit")
               => LET u == cashouts'[k].user
                  IN  /\ players'[u].cashout_at = current_multiplier
                      /\ cashouts'[k].winnings = players'[u].bet * players'[u].cashout_at
                      /\ \A j \in CashCalls \ {k} : cashouts'[j] = cashouts[j]
       /\ \A u \in Users :
             balance'[u] > balance[u]
               => \E k \in CashCalls :
                     /\ cashouts[k].pc = "credit"
                     /\ cashouts'[k].pc = "done"
                     /\ cashouts[k].user = u
                     /\ balance'[u] = balance[u] + cashouts[k].winnings]_vars

\* A player who joined once has cashed out above 1.00x and holds the credit.
C11_Witness ==
    \E k \in CashCalls :
        LET u == cashouts[k].user
        IN  /\ cashouts[k].reply = "cashed_out"
            /\ u \in DOMAIN players
            /\ players[u].cashout_at > One
            /\ balance[u] = InitialBalance * One - players[u].bet * One
                             + players[u].bet * players[u].cashout_at

\* C18: a cash-out request made while the round is not running, or by a
\* caller who is not in players, is rejected: players and the ledger are
\* left as they were and no credit is issued for it.
C18_RejectedCashoutNoEffect ==
    [][\A k \in CashCalls :
          (/\ cashouts[k].pc = "idle"
           /\ cashouts'[k].pc # "idle"
           /\ ~is_running \/ cashouts'[k].user \notin DOMAIN players)
            => /\ cashouts'[k] = DoneCash(cashouts'[k].user, "not_active")
               /\ players' = players
               /\ balance' = balance]_vars

\* A participant who has not cashed out was turned away because the round
\* was not running, and another caller because they are not a participant.
C18_Witness ==
    /\ \E k \in CashCalls :
          /\ cashouts[k].reply = "not_active"
          /\ cashouts[k].user \in DOMAIN players
          /\ players[cashouts[k].user].cashout_at = None
    /\ \E k \in CashCalls :
          /\ cashouts[k].reply = "not_active"
          /\ cashouts[k].user \notin DOMAIN players

Phase ==
    IF is_betting_open THEN "Betting"
    ELSE IF is_running THEN "Running"
    ELSE IF timeout_pc \in {"cancel_edit", "cancelled"} THEN "Cancelled"
    ELSE "Settled"

\* The step in which the betting timer elapses.
TimerElapses == timeout_pc = "betting" /\ timeout_pc' # "betting"

\* C13: when the betting timer elapses, lock_bets moves the round to Running
\* (is_running true, betting closed) if and only if players is non-empty at
\* that instant; otherwise the round is Cancelled (betting closed) and is
\* never running.
C13_LockRunsIffPlayers ==
    [][/\ TimerElapses
          => /\ ~is_betting_open'
             /\ is_running' <=> NumPlayers(players) > 0
             /\ NumPlayers(players) = 0 => Phase' = "Cancelled"
       /\ Phase = "Cancelled" => Phase' = "Cancelled"]_vars

\* C13 as the code has it: with players lock_bets goes into run_game, and the
\* round is running after the step only if the loop has a pass to make
\* (current_multiplier < crashed_at); with a crash point of 1.00 or less
\* is_running is set and cleared with no await in between and the round is
\* settled at once.  Without players the round is cancelled for good.
C13_LockRunsIffPlayersAndLoop ==
    [][/\ TimerElapses
          => /\ ~is_betting_open'
             /\ is_running' <=> (NumPlayers(players) > 0 /\ current_multiplier < crashed_at)
             /\ NumPlayers(players) > 0 => Phase' \in {"Running", "Settled"}
             /\ NumPlayers(players) = 0 => Phase' = "Cancelled"
       /\ Phase = "Cancelled" => Phase' = "Cancelled"]_vars

\* The timer has elapsed on a round with players and an instant crash: the
\* round is settled and was never seen running.
C13_Witness ==
    /\ timeout_pc = "final_push"
    /\ NumPlayers(players) > 0
    /\ crashed_at = One
    /\ graph_len = 1

\* C14: the phase only moves Betting -> Running -> Settled or
\* Betting -> Cancelled: is_betting_open and is_running are never both true,
\* betting never reopens, a Settled or Cancelled round never runs again.
C14_PhaseOrder ==
    [][/\ ~(is_betting_open /\ is_running)
       /\ ~(is_betting_open' /\ is_running')
       /\ <<Phase, Phase'>> \in {<<"Betting", "Betting">>, <<"Betting", "Running">>,
                                 <<"Betting", "Cancelled">>, <<"Running", "Running">>,
                                 <<"Running", "Settled">>, <<"Settled", "Settled">>,
                                 <<"Cancelled", "Cancelled">>}]_vars

\* C14 as the code has it: the same order, and Betting -> Settled in one
\* step when the timer elapses on a round with players whose crash point is
\* 1.00 or less (run_game sets and clears is_running between two awaits).
C14_PhaseOrderOrInstant ==
    [][/\ ~(is_betting_open /\ is_running)
       /\ ~(is_betting_open' /\ is_running')
       /\ \/ <<Phase, Phase'>> \in {<<"Betting", "Betting">>, <<"Betting", "Running">>,
                                    <<"Betting", "Cancelled">>, <<"Running", "Running">>,
                                    <<"Running", "Settled">>, <<"Settled", "Settled">>,
                                    <<"Cancelled", "Cancelled">>}
          \/ /\ <<Phase, Phase'>> = <<"Betting", "Settled">>
             /\ TimerElapses
             /\ NumPlayers(players) > 0
             /\ crashed_at <= One]_vars

\* A round has run and settled at a crash point above 1.00, with a cash-out
\* request turned away after it.
C14_Witness ==
    /\ Phase = "Settled"
    /\ timeout_pc = "done"
    /\ current_multiplier > One
    /\ \E k \in CashCalls : cashouts[k].reply = "not_active"

\* What the ledger held for u when the round was created.
StartBalance(u) == IF u \in ActiveUsers THEN InitialBalance * One ELSE MIN_BET * One

\* C15: a round cancelled because nobody had joined when the timer elapsed
\* has no ledger effect, a join in flight at that moment included.
C15_CancelNoLedgerEffect ==
    Phase = "Cancelled" => \A u \in Users : balance[u] = StartBalance(u)

\* C16: whenever the round is settled and its final frame pushed,
\* current_multiplier equals crashed_at exactly.
C16_SettledAtCrashPoint == timeout_pc = "done" => current_multiplier = crashed_at

\* A step of the timer task inside run_game.
TimerTaskStep == run_game \/ PushFrame \/ FinalPush

C19_NetLedgerChange ==
    (/\ timeout_pc = "done"
     /\ \A c \in JoinCalls : joins[c].pc \in {"idle", "done"}
     /\ \A k \in CashCalls : cashouts[k].pc \in {"idle", "done"})
      => \A u \in DOMAIN players :
            balance[u] = StartBalance(u) - players[u].bet * One
                         + (IF players[u].cashout_at # None
                            THEN players[u].bet * players[u].cashout_at ELSE 0)

\* C20: the reason returned with a rejected join or cash-out names the
\* precondition that failed: betting over, already joined, round full,
\* insufficient funds, round not active, already cashed out each have their
\* own reason, and a reason is returned for no other cause than its own.
C20_ReasonNamesCause ==
    [][/\ \A c \in JoinCalls :
             (joins[c].pc # "done" /\ joins'[c].pc = "done")
               => LET u == joins'[c].user
                      why == joins'[c].reply
                  IN  /\ why = "betting_over" => ~is_betting_open
                      /\ why = "already_joined" => u \in DOMAIN players
                      /\ why = "game_full" => NumPlayers(players) >= MAX_PLAYERS
                      /\ why = "no_funds" => balance[u] < joins[c].bet * One
       /\ \A k \in CashCalls :
             (cashouts[k].pc = "idle" /\ cashouts'[k].pc = "done")
               => LET u == cashouts'[k].user
                      why == cashouts'[k].reply
                  IN  /\ why = "not_active" => (~is_running \/ u \notin DOMAIN players)
                      /\ why = "already_cashed_out"
                           => (u \in DOMAIN players /\ players[u].cashout_at # None)]_vars

\* ------------------------------------------- the stock tracker: fingerprint

\* No Crash round is played: the round of Init with an instant crash, left
\* alone.
NoRound ==
    /\ is_betting_open = TRUE
    /\ is_running = FALSE
    /\ crashed_at = One
    /\ current_multiplier = One
    /\ players = << >>
    /\ balance = [u \in Users |-> IF u \in ActiveUsers THEN InitialBalance * One
                                                         ELSE MIN_BET * One]
    /\ profiles = Users
    /\ timeout_pc = "betting"
    /\ elapsed = 0
    /\ graph_len = 0
    /\ joins = [c \in JoinCalls |-> IdleJoin]
    /\ cashouts = [k \in CashCalls |-> IdleCash]
    /\ relock = IdleLock
    /\ spins = [s \in SpinCalls |-> IdleSpin]
    /\ guild_log = NoLog

crash_vars == <<is_betting_open, is_running, crashed_at, current_multiplier, players,
                balance, profiles, timeout_pc, elapsed, graph_len, joins, cashouts, relock,
                guild_log>>

\* What the feed may send as "data": a weather, and per category a list of
\* items with a name (possibly repeated or in another casing) and a
\* quantity.
Quantities == {1, 2}
SeedNames == {"Cacao", "CACAO", "Carrot"}
SeedLists == UNION {[1..n -> [name : SeedNames, quantity : Quantities]] : n \in 0..MaxItems}
GearLists == {<< >>, <<[name |-> "Trowel", quantity |-> 1]>>,
              <<[name |-> "Star Caller", quantity |-> 1]>>}
EggLists == {<< >>, <<[name |-> "Bug Egg", quantity |-> 1]>>}
Snapshots == [weather : {NoWeather, DefaultWeather, "Rain"}, weatherHistory : {<< >>},
              seeds : SeedLists, gear : GearLists, eggs : EggLists]

\* The fingerprint of one snapshot after the other.
InitFingerprint ==
    /\ NoRound
    /\ Connected
    /\ weather_history = << >>
    /\ current_data \in Snapshots
    /\ last_data_hash = <<calculate_data_hash(current_data)>>
    /\ feed_pc = "idle"
    /\ change_summary = << >>
    /\ embed = NoEmbed
    /\ status_ids = [ch \in Channels |-> 0]
    /\ alert_ids = [ch \in Channels |-> 0]
    /\ messages = [ch \in Channels |-> {}]
    /\ tasks = [ch \in Channels |-> IdleTask]
    /\ results = [ch \in Channels |-> "none"]
    /\ ingested = 0

Fingerprint ==
    /\ \E data \in Snapshots :
         /\ current_data' = data
         /\ last_data_hash' = <<calculate_data_hash(data)>>
    /\ UNCHANGED <<crash_vars, spins, link_vars, weather_history, embed, feed_pc, change_summary, status_ids, alert_ids, messages,
                   tasks, results, ingested>>

SpecFingerprint == InitFingerprint /\ [][Fingerprint]_vars

\* --------------------------------------------- the stock tracker: pipeline

\* The websocket messages of the model: a text that is not JSON, an empty
\* "data", and snapshots of the shop.
Item(name, quantity) == [name |-> name, quantity |-> quantity]
Shop(weather, seeds) ==
    [weather |-> weather, weatherHistory |-> <<weather>>,
     seeds |-> seeds, gear |-> << >>, eggs |-> << >>]
FeedData ==
    {Shop("Rain", <<Item("Cacao", 2)>>),
     Shop("Rain", <<Item("Cacao", 1)>>),
     Shop("Rain", <<Item("Cacao", 2), Item("Cacao", 1)>>),
     Shop("Rain", <<Item("Cacao", 2), Item("Beanstalk", 1)>>),
     Shop("Rain", <<Item("Carrot", 1)>>)}
FeedMessages ==
    {[kind |-> "bad_json", data |-> NoData], [kind |-> "empty", data |-> NoData]}
        \cup {[kind |-> "data", data |-> d] : d \in FeedData}

\* The stock tracker from start-up, with no Crash round played.
InitTracker == NoRound /\ TrackerStart

Exists(ch, id) == \E m \in messages[ch] : m.id = id

\* What Discord answers to fetch_message(id), message.edit and
\* message.delete: success when the message is there, NotFound when it is
\* not, and in both cases Forbidden or another HTTPException. Anybody with
\* the permission may have deleted the message before the call, which then
\* finds it gone.
ApiOutcomes(ch, id) ==
    (IF Exists(ch, id) THEN {"ok"} ELSE {}) \cup {"not_found", "forbidden", "error"}

\* The messages of the channel after the call with that answer.
Gone(ch, id, out) ==
    [messages EXCEPT ![ch] = IF out = "not_found" THEN {m \in @ : m.id # id} ELSE @]

\* The id Discord gives to a message sent to the channel: one that no
\* message of the channel and no pointer of the bot holds. Ids are only ever
\* compared with each other, so the least such id stands for it.
NewId(ch) ==
    LET used == {m.id : m \in messages[ch]}
                    \cup {status_ids[ch], alert_ids[ch], tasks[ch].new_id}
    IN  CHOOSE i \in 1..(Cardinality(used) + 1) :
            i \notin used /\ \A j \in 1..(i - 1) : j \in used

\* A task that has just been created for _update_channel.
NewTask == [pc |-> "start", new_id |-> 0, cleanup |-> "none", attempts |-> 0, outcome |-> "none"]

\* _process_websocket_message without the baseline of lines 101-104.
ReceiveFrom_NoBaseline(feed, resolved) ==
    /\ feed_pc = "idle"
    /\ ingested < MaxMessages
    /\ ingested' = ingested + 1
    /\ \E msg \in feed :
         LET current_hash == <<calculate_data_hash(msg.data)>>
             nothing == UNCHANGED <<last_data_hash, feed_pc, change_summary, embed, tasks, results>>
             kept == weather_history' = weather_history
         IN  IF msg.kind = "bad_json"
             THEN nothing /\ kept /\ current_data' = current_data
             ELSE IF msg.kind = "empty"
             THEN nothing /\ kept /\ current_data' = NoData
             ELSE /\ current_data' = msg.data
                  /\ weather_history' = msg.data.weatherHistory
                  /\ IF current_hash = last_data_hash
                     THEN nothing
                     ELSE \E found \in resolved :
                            /\ embed' = build_stock_embed(msg.data)
                            /\ change_summary' = get_notable_items(msg.data)
                            /\ tasks' = [ch \in Channels |->
                                            IF ch \in found THEN NewTask ELSE IdleTask]
                            /\ results' = [ch \in Channels |-> "none"]
                            /\ last_data_hash' = last_data_hash
                            /\ feed_pc' = "gather"
    /\ UNCHANGED <<crash_vars, spins, link_vars, status_ids, alert_ids, messages>>

\* _process_websocket_message with a payload that cannot be parsed taken
\* for an empty object.
ReceiveFrom_BadAsEmpty(feed, resolved) ==
    /\ feed_pc = "idle"
    /\ ingested < MaxMessages
    /\ ingested' = ingested + 1
    /\ \E msg \in feed :
         LET current_hash == <<calculate_data_hash(msg.data)>>
             nothing == UNCHANGED <<last_data_hash, feed_pc, change_summary, embed, tasks, results>>
             kept == weather_history' = weather_history
         IN  IF msg.kind \in {"bad_json", "empty"}
             THEN nothing /\ kept /\ current_data' = NoData
             ELSE /\ current_data' = msg.data
                  /\ weather_history' = msg.data.weatherHistory
                  /\ IF last_data_hash = << >>
                     THEN /\ last_data_hash' = current_hash
                          /\ UNCHANGED <<feed_pc, change_summary, embed, tasks, results>>
                     ELSE IF current_hash = last_data_hash
                     THEN nothing
                     ELSE \E found \in resolved :
                            /\ embed' = build_stock_embed(msg.data)
                            /\ change_summary' = get_notable_items(msg.data)
                            /\ tasks' = [ch \in Channels |->
                                            IF ch \in found THEN NewTask ELSE IdleTask]
                            /\ results' = [ch \in Channels |-> "none"]
                            /\ IF found = {}
                               THEN /\ last_data_hash' = current_hash
                                    /\ feed_pc' = "idle"
                               ELSE /\ last_data_hash' = last_data_hash
                                    /\ feed_pc' = "gather"
    /\ UNCHANGED <<crash_vars, spins, link_vars, status_ids, alert_ids, messages>>

\* websocket_listener receives a message and _process_websocket_message
\* runs up to asyncio.gather (lines 92-109, 134-159), or returns.
ReceiveFrom(feed, resolved) ==
    /\ feed_pc = "idle"
    /\ ingested < MaxMessages
    /\ ingested' = ingested + 1
    /\ \E msg \in feed :
         LET current_hash == <<calculate_data_hash(msg.data)>>
             nothing == UNCHANGED <<last_data_hash, feed_pc, change_summary, embed, tasks, results>>
             kept == weather_history' = weather_history
         IN  IF msg.kind = "bad_json"
             THEN nothing /\ kept /\ current_data' = current_data
             ELSE IF msg.kind = "empty"
             THEN nothing /\ kept /\ current_data' = NoData
             ELSE /\ current_data' = msg.data
                  /\ weather_history' = msg.data.weatherHistory
                  /\ IF last_data_hash = << >>
                     THEN /\ last_data_hash' = current_hash
                          /\ UNCHANGED <<feed_pc, change_summary, embed, tasks, results>>
                     ELSE IF current_hash = last_data_hash
                     THEN nothing
                     ELSE \E found \in resolved :
                            /\ embed' = build_stock_embed(msg.data)
                            /\ change_summary' = get_notable_items(msg.data)
                            /\ tasks' = [ch \in Channels |->
                                            IF ch \in found THEN NewTask ELSE IdleTask]
                            /\ results' = [ch \in Channels |-> "none"]
                            /\ IF found = {}
                               THEN /\ last_data_hash' = current_hash
                                    /\ feed_pc' = "idle"
                               ELSE /\ last_data_hash' = last_data_hash
                                    /\ feed_pc' = "gather"
    /\ UNCHANGED <<crash_vars, spins, link_vars, status_ids, alert_ids, messages>>

\* Every channel of the guilds is a stock channel, and get_channel finds
\* them all, or all but the last.
Receive == ReceiveFrom(FeedMessages, {Channels, Channels \ {NumChannels}})

\* _send_notification without lines 251-256: the tracked alert is left alone.
NotifyFetch_NoCleanup(ch) ==
    /\ tasks[ch].pc = "start"
    /\ tasks' = [tasks EXCEPT ![ch].pc = IF change_summary = << >> THEN "status" ELSE "noti_send"]
    /\ UNCHANGED <<crash_vars, spins, link_vars, weather_history, embed, last_data_hash, current_data, feed_pc, change_summary,
                   status_ids, alert_ids, messages, results, ingested>>

\* _update_channel, lines 171-172, and _send_notification, lines 249-256
\* up to fetch_message: no summary, no alert; no tracked alert, nothing to
\* delete.
NotifyFetch(ch) ==
    /\ tasks[ch].pc = "start"
    /\ IF change_summary = << >>
       THEN /\ tasks' = [tasks EXCEPT ![ch].pc = "status"]
            /\ messages' = messages
       ELSE IF alert_ids[ch] = 0
       THEN /\ tasks' = [tasks EXCEPT ![ch].pc = "noti_send"]
            /\ messages' = messages
       ELSE \E out \in ApiOutcomes(ch, alert_ids[ch]) :
              /\ messages' = Gone(ch, alert_ids[ch], out)
              /\ tasks' = [tasks EXCEPT ![ch].cleanup = out,
                                       ![ch].pc =
                             CASE out = "ok" -> "noti_delete"
                               [] out \in {"not_found", "forbidden"} -> "noti_send"
                               [] OTHER -> "raised"]
    /\ UNCHANGED <<crash_vars, spins, link_vars, weather_history, embed, last_data_hash, current_data, feed_pc, change_summary,
                   status_ids, alert_ids, results, ingested>>

\* _send_notification, line 253: last_message.delete().
NotifyDelete(ch) ==
    /\ tasks[ch].pc = "noti_delete"
    /\ \E out \in ApiOutcomes(ch, alert_ids[ch]) :
         /\ messages' = [messages EXCEPT ![ch] =
                IF out \in {"ok", "not_found"} THEN {m \in @ : m.id # alert_ids[ch]} ELSE @]
         /\ tasks' = [tasks EXCEPT ![ch].cleanup = IF out = "ok" THEN "deleted" ELSE out,
                                  ![ch].pc = IF out = "error" THEN "raised" ELSE "noti_send"]
    /\ UNCHANGED <<crash_vars, spins, link_vars, weather_history, embed, last_data_hash, current_data, feed_pc, change_summary,
                   status_ids, alert_ids, results, ingested>>

\* _send_notification, lines 258-263: channel.send of the alert, which
\* Discord accepts, giving the message a new id, or refuses.
NotifySend(ch) ==
    /\ tasks[ch].pc = "noti_send"
    /\ \/ /\ messages' = [messages EXCEPT ![ch] = @ \cup {[id |-> NewId(ch), kind |-> "alert"]}]
          /\ tasks' = [tasks EXCEPT ![ch].pc = "noti_store", ![ch].new_id = NewId(ch)]
       \/ /\ tasks' = [tasks EXCEPT ![ch].pc = "status", ![ch].cleanup = "none"]
          /\ UNCHANGED messages
    /\ UNCHANGED <<crash_vars, spins, link_vars, weather_history, embed, last_data_hash, current_data, feed_pc, change_summary,
                   status_ids, alert_ids, results, ingested>>

\* _send_notification, line 264: set_config_value stores the id, or fails
\* in the database and logs it (database_manager.py lines 206-215).
NotifyStore(ch) ==
    /\ tasks[ch].pc = "noti_store"
    /\ \/ alert_ids' = [alert_ids EXCEPT ![ch] = tasks[ch].new_id]
       \/ alert_ids' = alert_ids
    /\ tasks' = [tasks EXCEPT ![ch].pc = "status", ![ch].new_id = 0, ![ch].cleanup = "none"]
    /\ UNCHANGED <<crash_vars, spins, link_vars, weather_history, embed, last_data_hash, current_data, feed_pc, change_summary,
                   status_ids, messages, results, ingested>>

\* _update_channel, lines 175-181: the tracked status message is fetched.
StatusFetch(ch) ==
    /\ tasks[ch].pc = "status"
    /\ IF status_ids[ch] = 0
       THEN /\ tasks' = [tasks EXCEPT ![ch].pc = "status_send"]
            /\ messages' = messages
       ELSE \E out \in ApiOutcomes(ch, status_ids[ch]) :
              /\ messages' = Gone(ch, status_ids[ch], out)
              /\ tasks' = [tasks EXCEPT ![ch] =
                  CASE out = "ok" -> [@ EXCEPT !.pc = "edit"]
                    [] out = "not_found" ->
                           [@ EXCEPT !.pc = "status_unlink", !.outcome = "fetch_not_found"]
                    [] out = "forbidden" -> [@ EXCEPT !.pc = "status_unlink"]
                    [] OTHER -> [@ EXCEPT !.pc = "returned", !.outcome = "fetch_error"]]
    /\ UNCHANGED <<crash_vars, spins, link_vars, weather_history, embed, last_data_hash, current_data, feed_pc, change_summary,
                   status_ids, alert_ids, results, ingested>>

\* _update_channel, line 181: delete_stock_message removes the row, or fails
\* in the database and logs it (database_manager.py lines 538-545).
StatusUnlink(ch) ==
    /\ tasks[ch].pc = "status_unlink"
    /\ \/ status_ids' = [status_ids EXCEPT ![ch] = 0]
       \/ status_ids' = status_ids
    /\ tasks' = [tasks EXCEPT ![ch].pc = "status_send"]
    /\ UNCHANGED <<crash_vars, spins, link_vars, weather_history, embed, last_data_hash, current_data, feed_pc, change_summary,
                   alert_ids, messages, results, ingested>>

\* _update_channel, line 184: message.edit; every HTTPException, NotFound
\* included, is caught and logged at lines 188-189.
StatusEdit(ch) ==
    /\ tasks[ch].pc = "edit"
    /\ \E out \in ApiOutcomes(ch, status_ids[ch]) :
         /\ messages' = Gone(ch, status_ids[ch], out)
         /\ tasks' = [tasks EXCEPT ![ch].pc = "returned",
                                  ![ch].attempts = @ + 1,
                                  ![ch].outcome =
                                      CASE out = "ok" -> "edited"
                                        [] out = "not_found" -> "edit_not_found"
                                        [] OTHER -> "edit_error"]
    /\ UNCHANGED <<crash_vars, spins, link_vars, weather_history, embed, last_data_hash, current_data, feed_pc, change_summary,
                   status_ids, alert_ids, results, ingested>>

\* _update_channel, line 186: channel.send of the status message.
StatusSend(ch) ==
    /\ tasks[ch].pc = "status_send"
    /\ \/ /\ messages' = [messages EXCEPT ![ch] = @ \cup {[id |-> NewId(ch), kind |-> "status"]}]
          /\ tasks' = [tasks EXCEPT ![ch].pc = "status_store", ![ch].new_id = NewId(ch),
                                    ![ch].attempts = @ + 1, ![ch].outcome = "sent"]
       \/ /\ tasks' = [tasks EXCEPT ![ch].pc = "returned", ![ch].attempts = @ + 1,
                                    ![ch].outcome = "send_error"]
          /\ UNCHANGED messages
    /\ UNCHANGED <<crash_vars, spins, link_vars, weather_history, embed, last_data_hash, current_data, feed_pc, change_summary,
                   status_ids, alert_ids, results, ingested>>

\* _update_channel, line 187: set_stock_status_message stores the id, or
\* fails in the database and logs it (database_manager.py lines 547-556).
StatusStore(ch) ==
    /\ tasks[ch].pc = "status_store"
    /\ \/ status_ids' = [status_ids EXCEPT ![ch] = tasks[ch].new_id]
       \/ status_ids' = status_ids
    /\ tasks' = [tasks EXCEPT ![ch].pc = "returned", ![ch].new_id = 0]
    /\ UNCHANGED <<crash_vars, spins, link_vars, weather_history, embed, last_data_hash, current_data, feed_pc, change_summary,
                   alert_ids, messages, results, ingested>>

\* asyncio.gather that gives up at the first exception: the tasks still
\* running are cancelled.
Gather_CancelsSiblings ==
    /\ feed_pc = "gather"
    /\ \/ \A ch \in Channels : tasks[ch].pc \in {"idle", "returned", "raised"}
       \/ \E ch \in Channels : tasks[ch].pc = "raised"
    /\ tasks' = [ch \in Channels |->
                    IF tasks[ch].pc \in {"idle", "returned", "raised"}
                    THEN tasks[ch] ELSE [tasks[ch] EXCEPT !.pc = "raised"]]
    /\ results' = [ch \in Channels |->
                      CASE tasks'[ch].pc = "raised" -> "exception"
                        [] tasks'[ch].pc = "returned" -> "returned"
                        [] OTHER -> "none"]
    /\ last_data_hash' = <<calculate_data_hash(current_data)>>
    /\ feed_pc' = "idle"
    /\ UNCHANGED <<crash_vars, spins, link_vars, weather_history, embed, current_data, change_summary, status_ids, alert_ids,
                   messages, ingested>>

\* asyncio.gather without return_exceptions: the exception of a task is
\* raised in _handle_update, line 113 catches it and line 109 is skipped.
Gather_RaisesFailure ==
    /\ feed_pc = "gather"
    /\ \A ch \in Channels : tasks[ch].pc \in {"idle", "returned", "raised"}
    /\ results' = [ch \in Channels |->
                      CASE tasks[ch].pc = "raised" -> "exception"
                        [] tasks[ch].pc = "returned" -> "returned"
                        [] OTHER -> "none"]
    /\ last_data_hash' = IF \E ch \in Channels : tasks[ch].pc = "raised"
                         THEN last_data_hash
                         ELSE <<calculate_data_hash(current_data)>>
    /\ feed_pc' = "idle"
    /\ UNCHANGED <<crash_vars, spins, link_vars, weather_history, embed, current_data, change_summary, status_ids, alert_ids,
                   messages, tasks, ingested>>

\* A wait that returns when the first task has ended.
Gather_FirstCompleted ==
    /\ feed_pc = "gather"
    /\ \E ch \in Channels : tasks[ch].pc \in {"returned", "raised"}
    /\ results' = [ch \in Channels |->
                      CASE tasks[ch].pc = "raised" -> "exception"
                        [] tasks[ch].pc = "returned" -> "returned"
                        [] OTHER -> "none"]
    /\ last_data_hash' = <<calculate_data_hash(current_data)>>
    /\ feed_pc' = "idle"
    /\ UNCHANGED <<crash_vars, spins, link_vars, weather_history, embed, current_data, change_summary,
                   status_ids, alert_ids, messages, tasks, ingested>>

\* asyncio.gather returns and line 109 is left out.
Gather_KeepsHash ==
    /\ feed_pc = "gather"
    /\ \A ch \in Channels : tasks[ch].pc \in {"idle", "returned", "raised"}
    /\ results' = [ch \in Channels |->
                      CASE tasks[ch].pc = "raised" -> "exception"
                        [] tasks[ch].pc = "returned" -> "returned"
                        [] OTHER -> "none"]
    /\ feed_pc' = "idle"
    /\ UNCHANGED <<crash_vars, spins, link_vars, weather_history, embed, last_data_hash, current_data, change_summary, status_ids,
                   alert_ids, messages, tasks, ingested>>

\* _handle_update, lines 159-165, and _process_websocket_message, line 109:
\* asyncio.gather(return_exceptions=True) returns once every task has ended;
\* the exceptions are logged and the new fingerprint is stored.
Gather ==
    /\ feed_pc = "gather"
    /\ \A ch \in Channels : tasks[ch].pc \in {"idle", "returned", "raised"}
    /\ results' = [ch \in Channels |->
                      CASE tasks[ch].pc = "raised" -> "exception"
                        [] tasks[ch].pc = "returned" -> "returned"
                        [] OTHER -> "none"]
    /\ last_data_hash' = <<calculate_data_hash(current_data)>>
    /\ feed_pc' = "idle"
    /\ UNCHANGED <<crash_vars, spins, link_vars, weather_history, embed, current_data, change_summary,
                   status_ids, alert_ids, messages, tasks, ingested>>

NextTracker ==
    \/ Receive
    \/ Gather
    \/ \E ch \in Channels : NotifyFetch(ch)
    \/ \E ch \in Channels : NotifyDelete(ch)
    \/ \E ch \in Channels : NotifySend(ch)
    \/ \E ch \in Channels : NotifyStore(ch)
    \/ \E ch \in Channels : StatusFetch(ch)
    \/ \E ch \in Channels : StatusUnlink(ch)
    \/ \E ch \in Channels : StatusEdit(ch)
    \/ \E ch \in Channels : StatusSend(ch)
    \/ \E ch \in Channels : StatusStore(ch)

SpecTracker == InitTracker /\ [][NextTracker]_vars

\* The steps of the _update_channel task of a channel.
TaskStep(ch) ==
    \/ NotifyFetch(ch)
    \/ NotifyDelete(ch)
    \/ NotifySend(ch)
    \/ NotifyStore(ch)
    \/ StatusFetch(ch)
    \/ StatusUnlink(ch)
    \/ StatusEdit(ch)
    \/ StatusSend(ch)
    \/ StatusStore(ch)

Ended(ch) == tasks[ch].pc \in {"returned", "raised", "cancelled"}
Running(ch) == tasks[ch].pc \notin {"idle", "returned", "raised", "cancelled"}

\* The tracker from start-up when get_channel finds only the first stock
\* channel.
NextOneChannel ==
    \/ ReceiveFrom(FeedMessages, {{1}})
    \/ Gather
    \/ NotifyFetch(1)
    \/ NotifyDelete(1)
    \/ NotifySend(1)
    \/ NotifyStore(1)
    \/ StatusFetch(1)
    \/ StatusUnlink(1)
    \/ StatusEdit(1)
    \/ StatusSend(1)
    \/ StatusStore(1)

SpecOneChannel == InitTracker /\ [][NextOneChannel]_vars

\* The tracker before the last message of the feed, after a dispatch for
\* the snapshot with Cacao and Beanstalk: in each channel either both
\* messages were sent and stored, or Discord refused both. get_channel
\* finds the stock channels 1 and 2.
Dispatched == Shop("Rain", <<Item("Cacao", 2), Item("Beanstalk", 1)>>)
AfterDispatch ==
    {[status |-> 2, alert |-> 1,
      live |-> {[id |-> 1, kind |-> "alert"], [id |-> 2, kind |-> "status"]},
      task |-> [pc |-> "returned", new_id |-> 0, cleanup |-> "none", attempts |-> 1, outcome |-> "sent"]],
     [status |-> 0, alert |-> 0, live |-> {},
      task |-> [pc |-> "returned", new_id |-> 0, cleanup |-> "none", attempts |-> 1, outcome |-> "send_error"]]}
InitLastDispatch ==
    /\ NoRound
    /\ Connected
    /\ weather_history = Dispatched.weatherHistory
    /\ last_data_hash = <<calculate_data_hash(Dispatched)>>
    /\ current_data = Dispatched
    /\ feed_pc = "idle"
    /\ change_summary = get_notable_items(Dispatched)
    /\ embed = build_stock_embed(Dispatched)
    /\ \E after \in [Channels -> AfterDispatch] :
         /\ status_ids = [ch \in Channels |-> after[ch].status]
         /\ alert_ids = [ch \in Channels |-> after[ch].alert]
         /\ messages = [ch \in Channels |-> after[ch].live]
         /\ tasks = [ch \in Channels |-> after[ch].task]
    /\ results = [ch \in Channels |-> "returned"]
    /\ ingested = MaxMessages - 1

NextTwoChannels ==
    \/ ReceiveFrom(FeedMessages, {{1, 2}})
    \/ Gather
    \/ \E ch \in Channels : NotifyFetch(ch)
    \/ \E ch \in Channels : NotifyDelete(ch)
    \/ \E ch \in Channels : NotifySend(ch)
    \/ \E ch \in Channels : NotifyStore(ch)
    \/ \E ch \in Channels : StatusFetch(ch)
    \/ \E ch \in Channels : StatusUnlink(ch)
    \/ \E ch \in Channels : StatusEdit(ch)
    \/ \E ch \in Channels : StatusSend(ch)
    \/ \E ch \in Channels : StatusStore(ch)

SpecTwoChannels == InitLastDispatch /\ [][NextTwoChannels]_vars

\* The states of InitLastDispatch are states of the tracker from start-up.
LastDispatchFromStart ==
    /\ Connected
    /\ weather_history = Dispatched.weatherHistory
    /\ last_data_hash = <<calculate_data_hash(Dispatched)>>
    /\ current_data = Dispatched
    /\ feed_pc = "idle"
    /\ change_summary = get_notable_items(Dispatched)
    /\ embed = build_stock_embed(Dispatched)
    /\ status_ids[1] = 2 /\ alert_ids[1] = 1
    /\ messages[1] = {[id |-> 1, kind |-> "alert"], [id |-> 2, kind |-> "status"]}
    /\ tasks[1] = [pc |-> "returned", new_id |-> 0, cleanup |-> "none", attempts |-> 1, outcome |-> "sent"]
    /\ status_ids[NumChannels] = 0 /\ alert_ids[NumChannels] = 0
    /\ messages[NumChannels] = {}
    /\ tasks[NumChannels] = [pc |-> "returned", new_id |-> 0, cleanup |-> "none", attempts |-> 1, outcome |-> "send_error"]
    /\ results = [ch \in Channels |-> "returned"]
    /\ ingested = MaxMessages - 1

\* ------------------------------------------------------------ slots

REELS == {"diamond", "orange", "lemon", "bell", "cherry", "clover", "BAR"}
PAYOUTS(symbol) ==
    CASE symbol = "diamond" -> 20
      [] symbol = "clover" -> 15
      [] symbol = "BAR" -> 10
      [] symbol = "bell" -> 8
      [] symbol = "orange" -> 5
      [] symbol = "lemon" -> 3
      [] symbol = "cherry" -> 2
      [] OTHER -> 0

\* _get_game_result for the three symbols drawn.
get_game_result(bet, reels) ==
    LET is_win == reels[1] = reels[2] /\ reels[2] = reels[3]
    IN  [is_win |-> is_win,
         winnings |-> IF is_win THEN bet * PAYOUTS(reels[1]) ELSE 0 - bet]

\* The roster is empty and the users have their starting balances; no
\* /slots command has been given.
InitSlots == NoRound /\ TrackerStart

slots_frame == <<is_betting_open, is_running, crashed_at, current_multiplier, players,
                 profiles, timeout_pc, elapsed, graph_len, joins, cashouts, relock,
                 tracker_vars, guild_log>>

\* slots, lines 108-113: a user gives the command with a bet within the
\* range and the interaction is deferred.
SlotsCommand(s) ==
    /\ spins[s].pc = "idle"
    /\ \E user \in ActiveUsers, bet \in Amounts :
         spins' = [spins EXCEPT ![s] = [IdleSpin EXCEPT !.pc = "check", !.user = user,
                                                        !.bet = bet]]
    /\ UNCHANGED <<slots_frame, balance>>

\* _check_balance, lines 30-39, then the animation and the sleep of lines
\* 118-119.
SlotsCheck(s) ==
    /\ spins[s].pc = "check"
    /\ spins' = [spins EXCEPT ![s].pc = IF balance[spins[s].user] < spins[s].bet * One
                                        THEN "refused" ELSE "spinning"]
    /\ UNCHANGED <<slots_frame, balance>>

\* slots, lines 121-125: _get_game_result draws the symbols and
\* _process_game_result, lines 79-80, applies winnings - bet with
\* update_balance, whose returned value is not looked at.
SlotsResult(s) ==
    /\ spins[s].pc = "spinning"
    /\ \E reels \in [1..3 -> REELS], dberr \in BOOLEAN :
         LET bet == spins[s].bet
             game_result == get_game_result(bet, reels)
             net_change == game_result.winnings - bet
             upd == update_balance(balance, profiles, spins[s].user, net_change * One, dberr)
         IN  /\ balance' = upd.balance
             /\ spins' = [spins EXCEPT ![s].pc = "done",
                                       ![s].winnings = game_result.winnings,
                                       ![s].is_win = game_result.is_win,
                                       ![s].ok = upd.ok]
    /\ UNCHANGED slots_frame

NextSlots ==
    \/ \E s \in SpinCalls : SlotsCommand(s)
    \/ \E s \in SpinCalls : SlotsCheck(s)
    \/ \E s \in SpinCalls : SlotsResult(s)

SpecSlots == InitSlots /\ [][NextSlots]_vars

\* --------------------------------------------- the stock tracker: rendering

\* Snapshots whose seeds repeat names, with entries that have no name ("")
\* or no quantity (0, the default of item.get).
RenderNames == {"", "Cacao", "Carrot"}
RenderQuantities == {0, 1, 2}
RenderLists ==
    UNION {[1..n -> [name : RenderNames, quantity : RenderQuantities]] : n \in 0..(MaxItems + 1)}
RenderSnapshots ==
    [weather : {"Rain"}, weatherHistory : {<< >>},
     seeds : RenderLists, gear : {<< >>, <<Item("Trowel", 1), Item("Trowel", 2)>>},
     eggs : {<< >>}]

\* A snapshot for which no embed has been built yet.
InitRender ==
    /\ NoRound
    /\ Connected
    /\ weather_history = << >>
    /\ current_data \in RenderSnapshots
    /\ last_data_hash = << >>
    /\ feed_pc = "idle"
    /\ change_summary = << >>
    /\ embed = NoEmbed
    /\ status_ids = [ch \in Channels |-> 0]
    /\ alert_ids = [ch \in Channels |-> 0]
    /\ messages = [ch \in Channels |-> {}]
    /\ tasks = [ch \in Channels |-> IdleTask]
    /\ results = [ch \in Channels |-> "none"]
    /\ ingested = 0

\* _handle_update, line 139: the embed of the snapshot is built.
Render ==
    /\ embed = NoEmbed
    /\ embed' = build_stock_embed(current_data)
    /\ UNCHANGED <<crash_vars, spins, link_vars, weather_history, last_data_hash, current_data,
                   feed_pc, change_summary, status_ids, alert_ids, messages, tasks, results,
                   ingested>>

SpecRender == InitRender /\ [][Render]_vars

\* --------------------------------------------- the stock tracker: listener

\* asyncio.sleep(30) of websocket_listener.
BackoffSeconds == 30

\* The tracker after __init__: the listener task is created and waits for
\* the bot to be ready.
InitListener ==
    /\ NoRound
    /\ last_data_hash = << >>
    /\ current_data = NoData
    /\ feed_pc = "wait_ready"
    /\ change_summary = << >>
    /\ embed = NoEmbed
    /\ status_ids = [ch \in Channels |-> 0]
    /\ alert_ids = [ch \in Channels |-> 0]
    /\ messages = [ch \in Channels |-> {}]
    /\ tasks = [ch \in Channels |-> IdleTask]
    /\ results = [ch \in Channels |-> "none"]
    /\ ingested = 0
    /\ weather_history = << >>
    /\ ready = FALSE
    /\ closed = FALSE
    /\ sleep_left = 0

\* What the listener does not touch while it connects, sleeps or ends.
tracker_data == <<last_data_hash, current_data, change_summary, embed, status_ids, alert_ids,
                  messages, results, ingested, weather_history>>

\* The bot becomes ready.
BotReady ==
    /\ ~ready
    /\ ready' = TRUE
    /\ UNCHANGED <<crash_vars, spins, tracker_data, feed_pc, tasks, closed, sleep_left>>

\* The bot is closed.
BotCloses ==
    /\ ~closed
    /\ closed' = TRUE
    /\ UNCHANGED <<crash_vars, spins, tracker_data, feed_pc, tasks, ready, sleep_left>>

\* websocket_listener, lines 118-120: wait_until_ready returns and the
\* loop is entered, unless the bot is closed.
ListenerStart ==
    /\ feed_pc = "wait_ready"
    /\ ready
    /\ feed_pc' = IF closed THEN "stopped" ELSE "connecting"
    /\ UNCHANGED <<crash_vars, spins, tracker_data, tasks, link_vars>>

\* websocket_listener ending at the first failed connection attempt.
Connect_GivesUp ==
    /\ feed_pc = "connecting"
    /\ \/ feed_pc' = "idle" /\ sleep_left' = sleep_left
       \/ feed_pc' = "stopped" /\ sleep_left' = sleep_left
    /\ UNCHANGED <<crash_vars, spins, tracker_data, tasks, ready, closed>>

\* websocket_listener, line 122: websockets.connect succeeds, or raises
\* (OSError, or another exception such as a refused handshake) and the
\* handlers of lines 126-129 lead to the sleep of line 130.
Connect ==
    /\ feed_pc = "connecting"
    /\ \/ feed_pc' = "idle" /\ sleep_left' = sleep_left
       \/ feed_pc' = "backoff" /\ sleep_left' = BackoffSeconds
    /\ UNCHANGED <<crash_vars, spins, tracker_data, tasks, ready, closed>>

\* websocket_listener, lines 124-130: while the listener waits for a
\* message the connection ends, with ConnectionClosedError or with a clean
\* close that ends the async for.
ConnectionEnds ==
    /\ feed_pc = "idle"
    /\ feed_pc' = "backoff"
    /\ sleep_left' = BackoffSeconds
    /\ UNCHANGED <<crash_vars, spins, tracker_data, tasks, ready, closed>>

\* _process_websocket_message, line 92, on a message that is JSON but not
\* an object: .get raises AttributeError, which lines 111-114 do not catch
\* and line 128 does.
ReceiveRaises ==
    /\ feed_pc = "idle"
    /\ ingested < MaxMessages
    /\ ingested' = ingested + 1
    /\ feed_pc' = "backoff"
    /\ sleep_left' = BackoffSeconds
    /\ UNCHANGED <<crash_vars, spins, last_data_hash, current_data, change_summary, embed,
                   status_ids, alert_ids, messages, results, weather_history, tasks,
                   ready, closed>>

\* A second of asyncio.sleep(30) passes.
SleepTick ==
    /\ feed_pc = "backoff"
    /\ sleep_left > 0
    /\ sleep_left' = sleep_left - 1
    /\ UNCHANGED <<crash_vars, spins, tracker_data, feed_pc, tasks, ready, closed>>

\* websocket_listener, lines 130 and 120: the sleep is over and the loop
\* goes round, unless the bot is closed.
Wake ==
    /\ feed_pc = "backoff"
    /\ sleep_left = 0
    /\ feed_pc' = IF closed THEN "stopped" ELSE "connecting"
    /\ UNCHANGED <<crash_vars, spins, tracker_data, tasks, link_vars>>

\* cog_unload with delivery tasks that outlive the cancelled listener.
cog_unload_LeavesTasks ==
    /\ feed_pc \notin {"cancelled", "stopped"}
    /\ feed_pc' = "cancelled"
    /\ UNCHANGED <<crash_vars, spins, tracker_data, tasks, link_vars>>

\* cog_unload, lines 83-86: the listener task is cancelled at the await
\* where it is; asyncio.gather, when cancelled, cancels its tasks.
cog_unload ==
    /\ feed_pc \notin {"cancelled", "stopped"}
    /\ feed_pc' = "cancelled"
    /\ tasks' = [ch \in Channels |->
                    IF Running(ch) THEN [tasks[ch] EXCEPT !.pc = "cancelled"] ELSE tasks[ch]]
    /\ UNCHANGED <<crash_vars, spins, tracker_data, link_vars>>

NextListener ==
    \/ BotReady
    \/ BotCloses
    \/ ListenerStart
    \/ Connect
    \/ ConnectionEnds
    \/ ReceiveRaises
    \/ SleepTick
    \/ Wake
    \/ cog_unload
    \/ ReceiveFrom(FeedMessages, {{1}})
    \/ Gather
    \/ NotifyFetch(1)
    \/ NotifyDelete(1)
    \/ NotifySend(1)
    \/ NotifyStore(1)
    \/ StatusFetch(1)
    \/ StatusUnlink(1)
    \/ StatusEdit(1)
    \/ StatusSend(1)
    \/ StatusStore(1)

SpecListener == InitListener /\ [][NextListener]_vars

\* The listener of a bot that finds none of the stock channels
\* (get_channel returns None, line 149): no delivery task is created.
NextLink ==
    \/ BotReady
    \/ BotCloses
    \/ ListenerStart
    \/ Connect
    \/ ConnectionEnds
    \/ ReceiveRaises
    \/ SleepTick
    \/ Wake
    \/ cog_unload
    \/ ReceiveFrom(FeedMessages, {{}})

\* That listener with time that goes on: the event loop lets the sleep of
\* line 130 run out and resumes the listener after it.
SpecLinkLive == InitListener /\ [][NextLink]_vars /\ WF_vars(SleepTick) /\ WF_vars(Wake)

\* The case-insensitive names of the items of a category.
NameSet(data, c) ==
    {lower(data[c][i].name) : i \in {j \in DOMAIN data[c] : data[c][j].name # ""}}

SameWeatherAndNames(a, b) ==
    /\ get_weather_type(a) = get_weather_type(b)
    /\ \A c \in Categories : NameSet(a, c) = NameSet(b, c)

\* C22: two snapshots with the same weather label and, per category, the
\* same set of case-insensitive item names have the same fingerprint,
\* whatever the order, the quantities and the repetitions of the names;
\* snapshots that differ in the weather or in the name set of a category
\* have different canonical projections.
C22_FingerprintOfNameSets ==
    [][SameWeatherAndNames(current_data, current_data')
          <=> last_data_hash' = last_data_hash]_vars

\* ------------------------------------------------- the stock tracker: claims

\* C23: the first non-empty snapshot received after start-up only stores its
\* fingerprint as the baseline: no task is created, no message is sent or
\* changed, no pointer moves, and the feed goes on to the next message.
C23_BaselineOnly ==
    [][(last_data_hash = << >> /\ current_data' # NoData)
          => /\ last_data_hash' = <<calculate_data_hash(current_data')>>
             /\ feed_pc' = "idle"
             /\ UNCHANGED <<tasks, results, change_summary, messages, status_ids, alert_ids>>]_vars

C23_Witness ==
    /\ ingested = 1
    /\ current_data # NoData
    /\ last_data_hash = <<calculate_data_hash(current_data)>>
    /\ feed_pc = "idle"
    /\ \A ch \in Channels : tasks[ch] = IdleTask /\ messages[ch] = {}

\* The lower-cased names that the change summary lists for a category.
Listed(summary, c) ==
    IF c \in DOMAIN summary THEN {lower(summary[c][i]) : i \in DOMAIN summary[c]} ELSE {}

\* The lower-cased names of a category in the snapshot accepted last, which
\* the stored fingerprint was taken of.
Previous(c) ==
    LET items == last_data_hash[1].items
    IN  IF c \in DOMAIN items THEN {items[c][i] : i \in DOMAIN items[c]} ELSE {}

\* C21: during a dispatch the notable-items diff lists exactly the
\* allow-listed items that are in the new snapshot and were not in the
\* snapshot accepted before it.
C21_NotableDiff ==
    feed_pc = "gather" =>
        \A c \in Categories :
            Listed(change_summary, c) =
                (NameSet(current_data, c) \cap {lower(n) : n \in NOTABLE_MAP[c]}) \ Previous(c)

\* The message received in the step is a snapshot with the weather and the
\* name sets of the snapshot accepted last.
SameAsAccepted ==
    /\ last_data_hash # << >>
    /\ ingested' = ingested + 1
    /\ get_weather_type(current_data') = last_data_hash[1].weather
    /\ \A c \in Categories : NameSet(current_data', c) = Previous(c)

\* C24: after the baseline, a snapshot with the weather and the name sets
\* of the snapshot accepted last, whatever its quantities, emits no update
\* and leaves the stored fingerprint unchanged.
C24_UnchangedIsSilent ==
    [][SameAsAccepted
          => /\ feed_pc' = "idle"
             /\ UNCHANGED <<last_data_hash, tasks, results, change_summary, messages,
                            status_ids, alert_ids>>]_vars

\* The message received in the step is a snapshot that adds items to a
\* category of the snapshot accepted last.
AddsItems ==
    /\ last_data_hash # << >>
    /\ ingested' = ingested + 1
    /\ \E c \in Categories :
         Previous(c) \subseteq NameSet(current_data', c) /\ Previous(c) # NameSet(current_data', c)

LiveAlerts(ch) == {m \in messages[ch] : m.kind = "alert"}

\* C26: in every channel at most one alert of the tracker is live at any
\* time, also after a delete of the alert before that failed with NotFound
\* or Forbidden, and after a store of the new id that failed.
C26_OneLiveAlert == \A ch \in Channels : Cardinality(LiveAlerts(ch)) <= 1

DeliveriesGoOn ==
    /\ \A ch \in Channels : Running(ch) => ENABLED TaskStep(ch)
    /\ (feed_pc = "gather" /\ \A ch \in Channels : ~Running(ch)) => ENABLED Gather
    /\ (feed_pc = "idle" /\ ingested < MaxMessages) => ENABLED Receive

\* A step in which the task of a channel moves, an exception included, leaves
\* the tasks, messages and pointers of every other channel and the feed as
\* they were.
OneTaskMoves ==
    \A ch \in Channels :
        (Running(ch) /\ tasks'[ch] # tasks[ch]) =>
            /\ feed_pc' = feed_pc
            /\ \A o \in Channels \ {ch} :
                 /\ tasks'[o] = tasks[o]
                 /\ messages'[o] = messages[o]
                 /\ status_ids'[o] = status_ids[o]
                 /\ alert_ids'[o] = alert_ids[o]

\* C28: in a dispatch over several channels a delivery that fails, with any
\* exception, never prevents, aborts or cancels the delivery to another
\* channel: the other tasks go on to their status update, and the feed goes
\* on to later snapshots.
C28_FailuresAreIsolated == []DeliveriesGoOn /\ [][OneTaskMoves]_vars

C28_Witness ==
    /\ tasks[1].pc = "raised"
    /\ tasks[2].pc = "edit"

\* The delivery of the last dispatch to the channel failed: its task ended
\* with an exception, or its status message was neither edited nor sent.
DeliveryFailed(ch) ==
    \/ tasks[ch].pc = "raised"
    \/ tasks[ch].outcome \in {"fetch_error", "edit_error", "edit_not_found", "send_error"}

\* C29: when a dispatch has ended, its aggregated result marks as failed
\* every channel whose status message edit failed, and only channels whose
\* delivery failed.
C29_ResultMarksFailedEdit ==
    feed_pc = "idle" =>
        \A ch \in Channels :
            /\ tasks[ch].outcome \in {"edit_error", "edit_not_found"} => results[ch] = "exception"
            /\ results[ch] = "exception" => DeliveryFailed(ch)

\* C30: when a delivery finds the tracked status message gone, at
\* fetch_message or at message.edit, the same delivery goes on to clear the
\* pointer and to send a new status message, whose id it stores.
C30_GoneMessageIsReplaced ==
    \A ch \in Channels :
        tasks[ch].outcome \in {"fetch_not_found", "edit_not_found"}
            => tasks[ch].pc \in {"status_unlink", "status_send"}

\* The status messages of the tracker that are in the channel.
StatusMessages(ch) == {m \in messages[ch] : m.kind = "status"}

\* C31: while the tracked status message of a channel exists, no step of a
\* delivery sends a new status message or changes the pointer: the message
\* is edited in place; when nothing is tracked, a delivery sends at most one
\* new status message and the pointer is set to the id of that message.
C31_EditInPlace ==
    [][\A ch \in Channels :
         /\ (status_ids[ch] # 0 /\ Exists(ch, status_ids[ch]))
                => /\ status_ids'[ch] = status_ids[ch]
                   /\ StatusMessages(ch)' \subseteq StatusMessages(ch)
         /\ (status_ids[ch] = 0 /\ status_ids'[ch] # 0)
                => /\ tasks[ch].outcome = "sent"
                   /\ [id |-> status_ids'[ch], kind |-> "status"] \in messages[ch]
         /\ (StatusMessages(ch)' # StatusMessages(ch) /\ tasks[ch].pc = "status_send")
                => tasks[ch].outcome # "sent"]_vars

\* C32: a delivery that failed is not tried again for the same snapshot: a
\* task that has ended stays ended until the dispatch is over, the dispatch
\* ends with the fingerprint of the new snapshot stored even when every
\* delivery failed, and the same snapshot received again starts no dispatch.
C32_NoRetry ==
    [][/\ \A ch \in Channels :
            (feed_pc = "gather" /\ Ended(ch)) => tasks'[ch] = tasks[ch]
       /\ (feed_pc = "gather" /\ feed_pc' = "idle")
            => last_data_hash' = <<calculate_data_hash(current_data)>>
       /\ (feed_pc = "idle" /\ ingested' = ingested + 1
               /\ current_data # NoData /\ current_data' = current_data)
            => /\ feed_pc' = "idle"
               /\ UNCHANGED <<last_data_hash, tasks, results, messages, status_ids, alert_ids>>]_vars

C32_Witness ==
    /\ feed_pc = "idle"
    /\ ingested = MaxMessages
    /\ tasks[1].pc = "raised"
    /\ results[1] = "exception"
    /\ current_data # NoData
    /\ last_data_hash = <<calculate_data_hash(current_data)>>

\* A payload that json.loads cannot parse.
BadPayload == [kind |-> "bad_json", data |-> NoData]
ReceiveBadPayload == ReceiveFrom({BadPayload}, {{1}})

\* C33: a payload that cannot be parsed can be taken whenever the listener
\* reads, and taking it changes nothing: the stored fingerprint, the last
\* raw data and the weather history stay, no update is dispatched and no
\* message is sent, edited or deleted, and the listener goes on reading
\* the same connection.
C33_BadPayloadNoEffect ==
    /\ []((feed_pc = "idle" /\ ingested < MaxMessages) => ENABLED ReceiveBadPayload)
    /\ [][ReceiveBadPayload =>
             /\ UNCHANGED <<last_data_hash, current_data, weather_history, change_summary,
                            tasks, results, messages, status_ids, alert_ids, link_vars>>
             /\ feed_pc' = "idle"]_vars
C33_Witness ==
    /\ feed_pc = "idle"
    /\ 2 <= ingested /\ ingested < MaxMessages
    /\ current_data # NoData
    /\ weather_history # << >>
    /\ last_data_hash = <<calculate_data_hash(current_data)>>
    /\ results[1] = "returned"
    /\ ENABLED ReceiveBadPayload

\* The listener holds or seeks a connection.
Linked == feed_pc \in {"connecting", "idle", "gather"}

\* C34: when the connection ends or cannot be made, for whatever reason
\* short of cancellation, the listener sleeps 30 seconds; the sleep only
\* runs down, and when it is over the listener makes a new connection
\* attempt unless the bot is closed, which is the only way it stops; a
\* sleeping listener of an open bot gets to its next attempt.
C34_AlwaysReconnects ==
    /\ [](feed_pc = "stopped" => closed)
    /\ [][/\ (Linked /\ ~Linked' /\ feed_pc' # "cancelled")
                => (feed_pc' = "backoff" /\ sleep_left' = BackoffSeconds)
          /\ (feed_pc = "backoff" /\ feed_pc' = "backoff")
                => (sleep_left' <= sleep_left /\ sleep_left' >= sleep_left - 1)
          /\ (feed_pc = "backoff" /\ feed_pc' \notin {"backoff", "cancelled"})
                => /\ sleep_left = 0
                   /\ feed_pc' = IF closed THEN "stopped" ELSE "connecting"]_vars
    /\ (feed_pc = "backoff" /\ ~closed)
            ~> (feed_pc \in {"connecting", "cancelled"} \/ closed)
C34_Witness ==
    /\ feed_pc = "connecting"
    /\ ~closed
    /\ sleep_left = 0
    /\ ingested = MaxMessages
    /\ last_data_hash # << >>

\* C35: the listener can be cancelled wherever it waits; once cancelled it
\* makes no connection attempt, takes no message and no delivery goes on:
\* nothing of the tracker changes any more. Before the bot is ready the
\* listener has made no connection attempt.
C35_CancelStopsListener ==
    /\ [](feed_pc \in {"connecting", "idle", "gather", "backoff", "stopped"} => ready)
    /\ [](feed_pc \in {"wait_ready", "connecting", "idle", "gather", "backoff"}
             => ENABLED cog_unload)
    /\ [](feed_pc = "cancelled" => \A ch \in Channels : ~Running(ch))
    /\ [][feed_pc = "cancelled"
             => UNCHANGED <<feed_pc, sleep_left, tasks, tracker_data>>]_vars
C35_Witness ==
    /\ feed_pc = "cancelled"
    /\ tasks[1].pc = "cancelled"
    /\ tasks[1].outcome = "sent"
    /\ ingested = 2
    /\ closed

\* C39: deliveries run only inside the one dispatch in flight; a message
\* is taken only when no dispatch is in flight and no delivery runs, one
\* message at a time; and a delivery to a channel is created only by taking
\* a message, when no delivery runs.
C39_OneDispatchAtATime ==
    /\ [](\A ch \in Channels : Running(ch) => feed_pc = "gather")
    /\ [][/\ ingested' \in {ingested, ingested + 1}
          /\ ingested' # ingested
                => (feed_pc = "idle" /\ \A ch \in Channels : ~Running(ch))
          /\ \A ch \in Channels :
                (tasks'[ch].pc = "start" /\ tasks[ch] # tasks'[ch])
                    => /\ ingested' = ingested + 1
                       /\ \A other \in Channels : ~Running(other)
          /\ (feed_pc = "gather" /\ feed_pc' = "idle")
                => \A ch \in Channels : ~Running(ch)]_vars
C39_Witness ==
    /\ feed_pc = "gather"
    /\ ingested = MaxMessages
    /\ tasks[1].pc = "edit"
    /\ tasks[2].pc = "noti_send"
    /\ status_ids[1] # 0

\* The sum of the quantities of the entries of a list that have a name.
RECURSIVE Total(_, _)
Total(items, name) ==
    IF items = << >> THEN 0
    ELSE (IF Head(items).name = name THEN Head(items).quantity ELSE 0)
             + Total(Tail(items), name)

\* The lines of a category's field that show a name.
LinesOf(c, name) == {i \in DOMAIN embed.fields[c] : embed.fields[c][i].name = name}

\* C36: in the embed of a snapshot every name that occurs in a category
\* has exactly one line in the category's field, and the quantity of that
\* line is the sum of the quantities of all the entries with the name;
\* the field has no other line.
C36_QuantitiesAreSummed ==
    embed # NoEmbed =>
        \A c \in Categories :
            LET items == current_data[c]
                names == {items[i].name : i \in DOMAIN items} \ {""}
            IN  /\ \A i \in DOMAIN embed.fields[c] : embed.fields[c][i].name \in names
                /\ \A name \in names :
                      /\ Cardinality(LinesOf(c, name)) = 1
                      /\ \A i \in LinesOf(c, name) :
                            embed.fields[c][i].quantity = Total(items, name)
C36_Witness ==
    /\ current_data.seeds = <<Item("Cacao", 1), Item("Carrot", 2), Item("Cacao", 2)>>
    /\ embed # NoEmbed
    /\ embed.fields["seeds"] = <<Item("Cacao", 3), Item("Carrot", 2)>>

\* The multipliers of the pay table.
Multipliers == {PAYOUTS(symbol) : symbol \in REELS}

\* C40: a spin whose balance update is applied changes the balance by
\* minus the bet when it loses, and by the bet times the multiplier minus
\* the bet when it wins; no spin takes more than the bet.
C40_SpinDelta ==
    [][\A s \in SpinCalls :
         (spins[s].pc = "spinning" /\ spins'[s].pc = "done" /\ spins'[s].ok)
            => LET b == spins[s].bet * One
                   delta == balance'[spins[s].user] - balance[spins[s].user]
               IN  /\ ~spins'[s].is_win => delta = 0 - b
                   /\ spins'[s].is_win
                        => \E k \in Multipliers :
                              /\ spins'[s].winnings = spins[s].bet * k
                              /\ delta = b * k - b
                   /\ delta >= 0 - b]_vars

\* C37: a running round whose frames are all delivered is settled in the
\* end, whatever the crash point and the cash-outs: the sample taken when
\* the animation time is over puts the multiplier on the crash point, the
\* next test of the loop clears is_running, and the animation time is over
\* after a bounded number of samples.
C37_RunningRoundSettles ==
    /\ [](is_running => elapsed < DurationTicks + MaxStep)
    /\ [][/\ (is_running /\ elapsed' # elapsed /\ elapsed' >= DurationTicks)
                => current_multiplier' = crashed_at
          /\ (is_running /\ current_multiplier >= crashed_at
                 /\ timeout_pc = "sleep_long" /\ timeout_pc' # timeout_pc)
                => (~is_running' /\ timeout_pc' = "final_push")]_vars
    /\ [](timeout_pc # "failed") => (is_running ~> ~is_running)
C37_Witness ==
    /\ ~is_running
    /\ timeout_pc = "done"
    /\ crashed_at > One
    /\ current_multiplier = crashed_at
    /\ elapsed >= DurationTicks
    /\ players[1].cashout_at \notin {None, crashed_at}

\* The rounds of the guild that are betting or running.
LiveRounds ==
    (IF is_betting_open \/ is_running THEN 1 ELSE 0)
        + Cardinality({i \in DOMAIN guild_log.replaced :
                          guild_log.replaced[i].is_betting_open
                              \/ guild_log.replaced[i].is_running})

\* C38: at most one round of the guild is betting or running; while the
\* registered round is betting or running a /crash command can only be
\* rejected: no round is made and the registered round is left as it is.
C38_OneLiveRound ==
    /\ [](LiveRounds <= 1)
    /\ []((Len(guild_log.replaced) + guild_log.rejected < MaxCommands) => ENABLED crash)
    /\ [][/\ (is_betting_open \/ is_running)
                => Len(guild_log'.replaced) = Len(guild_log.replaced)
          /\ (is_betting_open \/ is_running) /\ crash
                => /\ guild_log'.rejected = guild_log.rejected + 1
                   /\ UNCHANGED <<is_betting_open, is_running, crashed_at,
                                  current_multiplier, players, balance, timeout_pc>>
          /\ guild_log'.rejected # guild_log.rejected
                => (is_betting_open \/ is_running)]_vars
C38_Witness ==
    /\ guild_log.rejected >= 1
    /\ Len(guild_log.replaced) >= 1
    /\ guild_log.replaced[1].timeout_pc = "final_push"
    /\ is_running
    /\ current_multiplier > One

====
